---- MODULE Spec2Model ----
(***************************************************************************)
(* named_arrays: the named-shape engine of core.py.                        *)
(*                                                                         *)
(* A Python dict is an insertion-ordered mapping; it is modelled as a      *)
(* sequence of <<key, value>> pairs with distinct keys, so that key order  *)
(* is part of the value.                                                   *)
(***************************************************************************)
EXTENDS Integers, Sequences, FiniteSets, TLC

VARIABLES
    bs_ops,      \* the shapes A, B, C a caller holds
    bs_expr,     \* the broadcast expression evaluated last ("" before any)
    bs_shapes,   \* *shapes of the last call of broadcast_shapes that ran
    bs_out,      \* what the expression produced: a returned dict or a raised error
    ta_priority, \* __named_array_priority__ of each explicit array type
    ta_values,   \* *values of a call of type_array
    ta_out,      \* what type_array returned
    gi_self,     \* the array that is indexed
    gi_item,     \* the item it is indexed with
    gi_rev,      \* which index arrays' _getitem_reversed returns a result
    gi_calls,    \* the handlers called so far, in call order
    gi_out,      \* what array[item] produced
    nd_shape,    \* shape argument of ndindex
    nd_ignored,  \* axis_ignored argument of ndindex
    nd_gen,      \* the generator object ndindex returned
    nd_loops,    \* number of iterations begun over that one object
    nd_loop,     \* the current iteration: running, exhausted or broken off
    nd_out,      \* the mappings the current iteration has obtained
    nd_seen,     \* every mapping the object has yielded, over all iterations
    il_self,     \* the array that is interpolated
    il_item,     \* the coordinate mapping it is interpolated at
    il_via,      \* the entry point used: interp_linear or __call__
    il_out,      \* what the interpolation produced, with the element reads it made
    rn_python,   \* values drawn so far from the generator of Python's random module
    rn_numpy,    \* the process-wide generator of np.random: its seed and position
    rn_stdout,   \* number of lines written to standard output
    rn_objs,     \* the random-carrying objects constructed, with what each materialized
    rn_calls,    \* the calls of random_uniform made, with what each returned
    rn_last,     \* the value the last property read or get_index call produced
    cp_heap,     \* the objects allocated so far, in allocation order
    eq_self,     \* the left operand of ==
    eq_other,    \* the right operand of ==
    eq_out,      \* what the comparison produced
    mx_self,     \* the matrix a property is read from
    mx_via,      \* the property read: determinant or inverse
    mx_out,      \* what reading the property produced
    ls_self,     \* the linear space whose step is read
    ls_out,      \* what reading step produced
    rd_obj,      \* the random-carrying object the readers share
    rd_gens,     \* the generator objects allocated so far, in allocation order
    rd_readers,  \* each reader: its position, the property it reads, its generator, its result
    fx_op,       \* the operation a caller is about to call
    fx_args,     \* the mappings and sequences passed to it, as positions in fx_heap
    fx_ignored,  \* the axis_ignored argument of ndindex when it is None or a str
    fx_heap,     \* the dict and list objects allocated so far, in allocation order
    fx_out,      \* how the call ended
    rc_python,   \* values drawn so far from the generator of Python's random module
    rc_objs      \* the random-carrying objects made, each with the operation that made it

bs_vars == <<bs_ops, bs_expr, bs_shapes, bs_out>>

ta_vars == <<ta_priority, ta_values, ta_out>>

gi_vars == <<gi_self, gi_item, gi_rev, gi_calls, gi_out>>

nd_vars == <<nd_shape, nd_ignored, nd_gen, nd_loops, nd_loop, nd_out, nd_seen>>

il_vars == <<il_self, il_item, il_via, il_out>>

rn_vars == <<rn_python, rn_numpy, rn_stdout, rn_objs, rn_calls, rn_last>>

cp_vars == <<cp_heap>>

eq_vars == <<eq_self, eq_other, eq_out>>

mx_vars == <<mx_self, mx_via, mx_out>>

ls_vars == <<ls_self, ls_out>>

rd_vars == <<rd_obj, rd_gens, rd_readers>>

fx_vars == <<fx_op, fx_args, fx_ignored, fx_heap, fx_out>>

rc_vars == <<rc_python, rc_objs>>

vars == <<bs_vars, ta_vars, gi_vars, nd_vars, il_vars, rn_vars, cp_vars, eq_vars, mx_vars, ls_vars, rd_vars, fx_vars, rc_vars>>

\* what an action of one part leaves alone: the variables of all other parts
Frame(part) ==
    /\ IF part = "bs" THEN TRUE ELSE UNCHANGED bs_vars
    /\ IF part = "ta" THEN TRUE ELSE UNCHANGED ta_vars
    /\ IF part = "gi" THEN TRUE ELSE UNCHANGED gi_vars
    /\ IF part = "nd" THEN TRUE ELSE UNCHANGED nd_vars
    /\ IF part = "il" THEN TRUE ELSE UNCHANGED il_vars
    /\ IF part = "rn" THEN TRUE ELSE UNCHANGED rn_vars
    /\ IF part = "cp" THEN TRUE ELSE UNCHANGED cp_vars
    /\ IF part = "eq" THEN TRUE ELSE UNCHANGED eq_vars
    /\ IF part = "mx" THEN TRUE ELSE UNCHANGED mx_vars
    /\ IF part = "ls" THEN TRUE ELSE UNCHANGED ls_vars
    /\ IF part = "rd" THEN TRUE ELSE UNCHANGED rd_vars
    /\ IF part = "fx" THEN TRUE ELSE UNCHANGED fx_vars
    /\ IF part = "rc" THEN TRUE ELSE UNCHANGED rc_vars

---------------------------------------------------------------------------
(* Bounds *)

\* axis sizes range over 0..MaxSize
MaxSize == 2

\* priorities range over -1..MaxPriority
MaxPriority == 2

\* type_array is called with at most MaxOperands operands
MaxOperands == 3

\* one generator object is iterated at most MaxLoops times
MaxLoops == 2

\* an interpolated one-axis array has at most MaxLen elements
MaxLen == 3

\* a coordinate array has at most MaxPoints elements
MaxPoints == 2

\* coordinates are multiples of 1 / Den
Den == 2

\* seeds range over 0..MaxSeed; random.randint(0, 10 ** 12) draws from them
MaxSeed == 1

\* an object is materialized at most MaxCalls times, random_uniform and
\* get_index are called at most MaxCalls times each
MaxCalls == 2

\* at most MaxScalars scalar arrays are made from data
MaxScalars == 2

\* at most MaxVectors vectors are constructed, by the class or by from_scalar
MaxVectors == 1

\* at most MaxCopies shallow or deep copies are made
MaxCopies == 2

\* at most MaxWrites arrays hold data written in place
MaxWrites == 1

\* the entries of a matrix are in 0..MaxEntry
MaxEntry == 3

\* MaxReaders readers use one object at a time
MaxReaders == 2

\* axis names used for the enumerated shapes
Axes == {"x", "y"}

---------------------------------------------------------------------------
(* dict and sequence primitives used by the code *)

\* list(d): the keys in insertion order
Keys(d) == [i \in 1..Len(d) |-> d[i][1]]

\* d.values()
Values(d) == [i \in 1..Len(d) |-> d[i][2]]

KeySet(d) == {d[i][1] : i \in 1..Len(d)}

\* key in d
HasKey(d, k) == \E i \in 1..Len(d) : d[i][1] = k

\* d[k]
Get(d, k) == d[CHOOSE i \in 1..Len(d) : d[i][1] = k][2]

\* faulty variant: an existing key that is assigned to moves to the end
SetItem_moving(d, k, v) == Append(SelectSeq(d, LAMBDA e : e[1] # k), <<k, v>>)

\* d[k] = v: an existing key keeps its position, a new key goes last
SetItem(d, k, v) ==
    IF HasKey(d, k)
    THEN [i \in 1..Len(d) |-> IF d[i][1] = k THEN <<k, v>> ELSE d[i]]
    ELSE Append(d, <<k, v>>)

\* d.pop(k), for a key that is in d
Pop(d, k) == SelectSeq(d, LAMBDA e : e[1] # k)

\* reversed(s)
Reversed(s) == [i \in 1..Len(s) |-> s[Len(s) + 1 - i]]

---------------------------------------------------------------------------
(* broadcast_shapes, core.py 113-129 *)

\* outcomes of a call
BsPending == [kind |-> "pending", value |-> <<>>, exc |-> "", shapes |-> <<>>]
BsReturn(result) == [kind |-> "return", value |-> result, exc |-> "", shapes |-> <<>>]
\* raise ValueError(f'shapes {shapes} are not compatible')
BsRaise(shapes) == [kind |-> "raise", value |-> <<>>, exc |-> "ValueError", shapes |-> shapes]

\* faulty variant: a mismatch overwrites the size instead of raising
broadcast_axis_noraise(acc, shape, axis) ==
    IF HasKey(acc.result, axis)
    THEN IF Get(acc.result, axis) = Get(shape, axis) THEN acc
         ELSE IF Get(shape, axis) = 1 THEN acc
         ELSE [ok |-> TRUE, result |-> SetItem(acc.result, axis, Get(shape, axis))]
    ELSE [ok |-> TRUE, result |-> SetItem(acc.result, axis, Get(shape, axis))]

\* faulty variant: a stored size 1 is not stretched, the mismatch raises
broadcast_axis_strict(acc, shape, axis) ==
    IF HasKey(acc.result, axis)
    THEN IF Get(acc.result, axis) = Get(shape, axis) THEN acc
         ELSE IF Get(shape, axis) = 1 THEN acc
         ELSE [ok |-> FALSE, result |-> acc.result]
    ELSE [ok |-> TRUE, result |-> SetItem(acc.result, axis, Get(shape, axis))]

\* faulty variant: a stored size 1 is kept when a later shape gives k
broadcast_axis_keepfirst(acc, shape, axis) ==
    IF HasKey(acc.result, axis)
    THEN IF Get(acc.result, axis) = Get(shape, axis) THEN acc
         ELSE IF Get(shape, axis) = 1 THEN acc
         ELSE IF Get(acc.result, axis) = 1 THEN acc
         ELSE [ok |-> FALSE, result |-> acc.result]
    ELSE [ok |-> TRUE, result |-> SetItem(acc.result, axis, Get(shape, axis))]

\* the body of the inner loop for one axis of one shape (lines 117-127);
\* acc.ok is FALSE once the ValueError has been raised
broadcast_axis(acc, shape, axis) ==
    IF HasKey(acc.result, axis)
    THEN IF Get(acc.result, axis) = Get(shape, axis) THEN acc
         ELSE IF Get(shape, axis) = 1 THEN acc
         ELSE IF Get(acc.result, axis) = 1
              THEN [ok |-> TRUE, result |-> SetItem(acc.result, axis, Get(shape, axis))]
              ELSE [ok |-> FALSE, result |-> acc.result]
    ELSE [ok |-> TRUE, result |-> SetItem(acc.result, axis, Get(shape, axis))]

\* for axis in reversed(shape): ... (line 116); the raise leaves the loop
RECURSIVE broadcast_shape(_, _, _)
broadcast_shape(acc, shape, axes) ==
    IF ~acc.ok \/ axes = <<>> THEN acc
    ELSE broadcast_shape(broadcast_axis(acc, shape, Head(axes)), shape, Tail(axes))

\* faulty variant: the axes of one shape, leading axis first
scan_order_forward(shape) == Keys(shape)

\* reversed(shape): the axes of one shape, trailing axis first (line 116)
scan_order(shape) == Reversed(Keys(shape))

\* for shape in shapes: ... (line 115)
RECURSIVE broadcast_loop(_, _)
broadcast_loop(acc, shapes) ==
    IF ~acc.ok \/ shapes = <<>> THEN acc
    ELSE broadcast_loop(
             broadcast_shape(acc, Head(shapes), scan_order(Head(shapes))),
             Tail(shapes))

\* faulty variant: the merged dict is returned as it was filled
broadcast_reorder_none(result) == result

\* result = {axis: result[axis] for axis in reversed(result)} (line 128)
broadcast_reorder(result) == Reversed(result)

broadcast_shapes(shapes) ==
    LET acc == broadcast_loop([ok |-> TRUE, result |-> <<>>], shapes)
    IN  IF acc.ok THEN BsReturn(broadcast_reorder(acc.result)) ELSE BsRaise(shapes)

---------------------------------------------------------------------------
(* type_array, core.py 98-110 *)

\* the explicit array types an operand's value.type_array can be
Classes == {"ScalarArray", "Cartesian2dVectorArray", "Cartesian3dVectorArray"}

Priorities == {-1} \cup (0..MaxPriority)

\* an operand: a named array, whose type_array is cls, or any other value
NamedArray(cls) == [array |-> TRUE, cls |-> cls]
NotArray == [array |-> FALSE, cls |-> "float"]

TaPending == [kind |-> "pending", cls |-> "None"]
TaReturn(cls) == [kind |-> "return", cls |-> cls]

\* faulty variant: >= for >, the last maximum wins
type_array_value_last(acc, value, priority) ==
    IF value.array
    THEN IF priority[value.cls] >= acc.priority_max
         THEN [cls |-> value.cls, priority_max |-> priority[value.cls]]
         ELSE acc
    ELSE acc

\* the body of the loop for one value (lines 104-109)
type_array_value(acc, value, priority) ==
    IF value.array
    THEN IF priority[value.cls] > acc.priority_max
         THEN [cls |-> value.cls, priority_max |-> priority[value.cls]]
         ELSE acc
    ELSE acc

\* for value in values: ... (line 103)
RECURSIVE type_array_loop(_, _, _)
type_array_loop(acc, values, priority) ==
    IF values = <<>> THEN acc
    ELSE type_array_loop(type_array_value(acc, Head(values), priority),
                         Tail(values), priority)

\* faulty variant: the running maximum starts below every priority
type_array_from_below(values, priority) ==
    TaReturn(type_array_loop([cls |-> "None", priority_max |-> -2], values, priority).cls)

\* cls = None; priority_max = 0; ...; return cls
type_array(values, priority) ==
    TaReturn(type_array_loop([cls |-> "None", priority_max |-> 0], values, priority).cls)

---------------------------------------------------------------------------
(* AbstractArray.__getitem__, core.py 449-470 *)

\* index values that are named arrays, and index values that are not
IndexArrays == {"a1", "a2"}
PlainIndices == {"int", "slice"}

\* an item: a dict from axis names to index values, one named array, or
\* anything else
ItemDict(entries) == [kind |-> "dict", entries |-> entries, array |-> ""]
ItemArray(a) == [kind |-> "array", entries |-> <<>>, array |-> a]
ItemOther == [kind |-> "other", entries |-> <<>>, array |-> ""]

\* what a handler returns: the NotImplemented marker, or a result of its own
NotImplemented == <<"NotImplemented", "">>
ResultOf(handler) == <<"result", handler>>

GiPending == [kind |-> "pending", value |-> <<"", "">>, exc |-> "", names |-> ""]
GiReturn(result) == [kind |-> "return", value |-> result, exc |-> "", names |-> ""]

\* a handler call as it is logged: the method, the object it is called on and
\* its arguments
OwnCall(self, item) ==
    [method |-> "_getitem", on |-> "self", array |-> "", item |-> item]
ReversedCall(a, self, item) ==
    [method |-> "_getitem_reversed", on |-> a, array |-> "self", item |-> item]

\* self._getitem(item) (abstract, lines 434-439): a result or NotImplemented
_getitem(self, item) ==
    IF self.accepts THEN ResultOf("self") ELSE NotImplemented

\* a._getitem_reversed(array, item) (abstract, lines 441-447)
_getitem_reversed(a, rev) ==
    IF rev[a] THEN ResultOf(a) ELSE NotImplemented

\* result is not NotImplemented (lines 454, 462, 467)
is_result(result) == result # NotImplemented

\* faulty variant: the entries from the last key to the first
item_entries_reversed(item) == Reversed(item.entries)

\* for ax in item (line 459): the entries in key order
item_entries(item) == item.entries

\* lines 459-463; out stays pending when the loop ends without a return
RECURSIVE getitem_dict(_, _, _, _, _)
getitem_dict(self, item, rev, entries, calls) ==
    IF entries = <<>> THEN [out |-> GiPending, calls |-> calls]
    ELSE LET value == Head(entries)[2]
         IN  IF value \in IndexArrays
             THEN LET result == _getitem_reversed(value, rev)
                      called == Append(calls, ReversedCall(value, self, item))
                  IN  IF is_result(result)
                      THEN [out |-> GiReturn(result), calls |-> called]
                      ELSE getitem_dict(self, item, rev, Tail(entries), called)
             ELSE getitem_dict(self, item, rev, Tail(entries), calls)

\* lines 465-468
getitem_array(self, item, rev, calls) ==
    LET result == _getitem_reversed(item.array, rev)
        called == Append(calls, ReversedCall(item.array, self, item))
    IN  IF is_result(result)
        THEN [out |-> GiReturn(result), calls |-> called]
        ELSE [out |-> GiPending, calls |-> called]

\* faulty variant: the last result, NotImplemented, is returned
getitem_raise_notimplemented(self) == GiReturn(NotImplemented)

\* raise ValueError(f"item not supported by array with type {type(self)}")
getitem_raise(self) ==
    [kind |-> "raise", value |-> <<"", "">>, exc |-> "ValueError", names |-> self.type]

\* self[item]: the outcome and the handlers called, in call order
getitem(self, item, rev) ==
    LET result == _getitem(self, item)
        calls == <<OwnCall(self, item)>>
    IN  IF is_result(result)
        THEN [out |-> GiReturn(result), calls |-> calls]
        ELSE LET asked ==
                     IF item.kind = "dict"
                     THEN getitem_dict(self, item, rev, item_entries(item), calls)
                     ELSE IF item.kind = "array"
                     THEN getitem_array(self, item, rev, calls)
                     ELSE [out |-> GiPending, calls |-> calls]
             IN  IF asked.out.kind = "return" THEN asked
                 ELSE [out |-> getitem_raise(self), calls |-> asked.calls]

---------------------------------------------------------------------------
(* ndindex, core.py 137-154, and AbstractArray.ndindex, core.py 375-382 *)

\* the axis_ignored argument: None, one str, or a sequence of str
IgnoredNone == [kind |-> "None", str |-> "", seq |-> <<>>]
IgnoredStr(axis) == [kind |-> "str", str |-> axis, seq |-> <<>>]
IgnoredSeq(axes) == [kind |-> "seq", str |-> "", seq |-> axes]

\* lines 144-147
axis_ignored_list(axis_ignored) ==
    IF axis_ignored.kind = "None" THEN <<>>
    ELSE IF axis_ignored.kind = "str" THEN <<axis_ignored.str>>
    ELSE axis_ignored.seq

\* lines 149-151
RECURSIVE pop_ignored(_, _)
pop_ignored(shape, axes) ==
    IF axes = <<>> THEN shape
    ELSE pop_ignored(IF HasKey(shape, Head(axes)) THEN Pop(shape, Head(axes)) ELSE shape,
                     Tail(axes))

\* faulty variant: the index tuples with the first axis varying fastest
RECURSIVE np_ndindex_fortran(_)
np_ndindex_fortran(dims) ==
    IF dims = <<>> THEN << <<>> >>
    ELSE LET rest == np_ndindex_fortran(Tail(dims))
             n == dims[1]
         IN  [k \in 1..(n * Len(rest)) |->
                 <<(k - 1) % n>> \o rest[((k - 1) \div n) + 1]]

\* numpy.ndindex(*shape_tuple) (line 153): every index tuple, in C order
RECURSIVE np_ndindex(_)
np_ndindex(dims) ==
    IF dims = <<>> THEN << <<>> >>
    ELSE LET rest == np_ndindex(Tail(dims))
             n == Len(rest)
         IN  [k \in 1..(dims[1] * n) |->
                 <<(k - 1) \div n>> \o rest[((k - 1) % n) + 1]]

\* dict(zip(shape.keys(), index)) (line 154)
dict_zip(keys, index) == [i \in 1..Len(keys) |-> <<keys[i], index[i]>>]

\* everything the generator body yields, in order (lines 142-154)
ndindex_yields(shape, axis_ignored) ==
    LET remaining == pop_ignored(shape, axis_ignored_list(axis_ignored))
        shape_tuple == Values(remaining)
        indices == np_ndindex(shape_tuple)
    IN  [k \in 1..Len(indices) |-> dict_zip(Keys(remaining), indices[k])]

\* the generator object: created (body not begun), suspended at the yield
\* after n mappings, or closed
NoGenerator == [state |-> "none", n |-> 0]
ndindex(shape, axis_ignored) == [state |-> "created", n |-> 0]

\* faulty variant: iter() hands out a generator that starts over
generator_iter_restart(gen) == [state |-> "created", n |-> 0]

\* iter(generator) is the generator itself: it keeps its position
generator_iter(gen) == gen

---------------------------------------------------------------------------
(* interp_linear, core.py 619-673                                          *)
(*                                                                         *)
(* A coordinate is a multiple of 1/Den and is held as its numerator.  An   *)
(* interpolated value over m axes is held as its numerator over Den^m, so  *)
(* the arithmetic of line 660 is exact.  A coordinate array has one axis;  *)
(* its elements are the points, and numpy works on each point separately.  *)
(* A coordinate is [array, at]: x.shape is non-empty iff array, and at     *)
(* lists its elements.                                                     *)

\* an entry of item_base: the whole axis (an entry of .indices) or integers
RangeIndex == [range |-> TRUE, array |-> TRUE, at |-> <<>>]
PlainIndex(array, at) == [range |-> FALSE, array |-> array, at |-> at]

\* outcomes, each with the element reads self[...] made so far
IlPending ==
    [kind |-> "pending", exc |-> "", array |-> FALSE, pts |-> <<>>, den |-> 1,
     reads |-> <<>>]
IlReturn(array, pts, den, reads) ==
    [kind |-> "return", exc |-> "", array |-> array, pts |-> pts, den |-> den,
     reads |-> reads]
IlRaise(exc, reads) ==
    [kind |-> "raise", exc |-> exc, array |-> FALSE, pts |-> <<>>, den |-> 1,
     reads |-> reads]

\* the index tuples of a shape, one integer in 0..size-1 per axis
IndexTuples(shape) ==
    {t \in [1..Len(shape) -> 0..MaxLen] :
        \A a \in 1..Len(shape) : t[a] < shape[a][2]}

\* element p of a sequence of points that broadcasts against longer ones
AtPoint(at, p) == at[IF Len(at) = 1 THEN 1 ELSE p]

\* self[index] for an index dict of integers and whole axes, read at line
\* `line`.  numpy integer indexing: -n..-1 count from the end, anything else
\* outside 0..n-1 is an IndexError.  The result keeps the axes that are not
\* fixed to integers, in the order of self.
ndarray_getitem(self, index, line) ==
    LET fixed == {k \in KeySet(index) : ~Get(index, k).range}
        lens == {Len(Get(index, k).at) : k \in fixed} \cup {1}
        points == CHOOSE n \in lens : \A m \in lens : m <= n
        in_bounds(idx, n) == -n <= idx /\ idx < n
        wrapped(idx, n) == IF idx < 0 THEN idx + n ELSE idx
        remaining == SelectSeq(self.shape, LAMBDA e : e[1] \notin fixed)
        rank(a) == Cardinality({b \in 1..a : self.shape[b][1] \notin fixed})
        full(t, p) ==
            [a \in 1..Len(self.shape) |->
                IF self.shape[a][1] \in fixed
                THEN wrapped(AtPoint(Get(index, self.shape[a][1]).at, p),
                             self.shape[a][2])
                ELSE t[rank(a)]]
        read == <<[line |-> line, index |-> index]>>
    IN  IF \A k \in fixed : \A p \in 1..Len(Get(index, k).at) :
               in_bounds(Get(index, k).at[p], Get(self.shape, k))
        THEN IlReturn(\E k \in fixed : Get(index, k).array,
                      [p \in 1..points |->
                          [t \in IndexTuples(remaining) |-> self.ndarray[full(t, p)]]],
                      1, read)
        ELSE IlRaise("IndexError", read)

\* faulty variant: a coordinate at or above size-1 is not clamped
x0_scalar_noclamp(xh, n) ==
    IF xh < 0 THEN 0 ELSE xh \div Den

\* lines 641-646: the lower neighbour of a single coordinate; int(x)
\* truncates toward zero
x0_scalar(xh, n) ==
    LET int == IF xh >= 0 THEN xh \div Den ELSE -((-xh) \div Den)
    IN  IF xh < 0 THEN 0
        ELSE IF xh >= Den * (n - 1) THEN n - 2
        ELSE int

\* faulty variant: the entries below 0 keep their floor
x0_array_unmasked(xh, n) ==
    IF Den * (n - 1) <= xh THEN n - 2 ELSE xh \div Den

\* lines 633-638: the lower neighbour of one element of a coordinate array;
\* the assignment through where_above comes last
x0_array(xh, n) ==
    LET where_below == xh < 0
        where_above == Den * (n - 1) <= xh
        floored == xh \div Den
        below == IF where_below THEN 0 ELSE floored
    IN  IF where_above THEN n - 2 ELSE below

\* lines 632-646
lower_index(x, n) ==
    IF x.array
    THEN PlainIndex(TRUE, [p \in 1..Len(x.at) |-> x0_array(x.at[p], n)])
    ELSE PlainIndex(FALSE, <<x0_scalar(x.at[1], n)>>)

\* line 660: y0 + (x - x0) * (y1 - y0), point by point
interp_result(y0, y1, x, x0) ==
    LET points == IF Len(x.at) > 1 THEN Len(x.at) ELSE Len(y0.pts)
    IN  IlReturn(y0.array \/ x.array,
                 [p \in 1..points |->
                     [t \in DOMAIN AtPoint(y0.pts, p) |->
                         Den * AtPoint(y0.pts, p)[t]
                         + (AtPoint(x.at, p) - Den * AtPoint(x0.at, p))
                           * (AtPoint(y1.pts, p)[t] - AtPoint(y0.pts, p)[t])]],
                 Den * y0.den,
                 y0.reads \o y1.reads)

\* faulty variant: an empty item gives back the array it was asked about
interp_empty_item_returns(self) ==
    IlReturn(FALSE, <<self.ndarray>>, 1, <<>>)

\* lines 626-627
interp_empty_item(self) == IlRaise("ValueError", <<>>)

RECURSIVE _interp_linear_recursive(_, _, _)
_interp_linear_recursive(self, item, item_base) ==
    IF Len(item) = 0
    THEN interp_empty_item(self)
    ELSE LET axis == item[1][1]
             x == item[1][2]
             rest == Pop(item, axis)
             x0 == lower_index(x, Get(self.shape, axis))
             x1 == PlainIndex(x0.array, [p \in 1..Len(x0.at) |-> x0.at[p] + 1])
             item_base_0 == SetItem(item_base, axis, x0)
             item_base_1 == SetItem(item_base, axis, x1)
             y0 == IF Len(rest) > 0
                   THEN _interp_linear_recursive(self, rest, item_base_0)
                   ELSE ndarray_getitem(self, item_base_0, 657)
         IN  IF y0.kind = "raise"
             THEN y0
             ELSE LET y1 == IF Len(rest) > 0
                            THEN _interp_linear_recursive(self, rest, item_base_1)
                            ELSE ndarray_getitem(self, item_base_1, 658)
                  IN  IF y1.kind = "raise"
                      THEN IlRaise(y1.exc, y0.reads \o y1.reads)
                      ELSE interp_result(y0, y1, x, x0)

\* faulty variant: only the first key of item is interpolated
interp_linear_first_key(self, item) ==
    LET first == SubSeq(item, 1, IF Len(item) > 0 THEN 1 ELSE 0)
        zeros == [i \in 1..Len(first) |-> <<first[i][1], PlainIndex(FALSE, <<0>>)>>]
        base == ndarray_getitem(self, zeros, 669)
        kept == SelectSeq(self.shape, LAMBDA e : e[1] \notin KeySet(first))
        indices == [i \in 1..Len(kept) |-> <<kept[i][1], RangeIndex>>]
        out == _interp_linear_recursive(self, first, indices)
    IN  IF base.kind = "raise"
        THEN base
        ELSE [out EXCEPT !.reads = base.reads \o out.reads]

\* lines 663-670: item_base is .indices of self[{ax: 0 for ax in item}]
interp_linear(self, item) ==
    LET zeros == [i \in 1..Len(item) |-> <<item[i][1], PlainIndex(FALSE, <<0>>)>>]
        base == ndarray_getitem(self, zeros, 669)
        kept == SelectSeq(self.shape, LAMBDA e : e[1] \notin KeySet(item))
        indices == [i \in 1..Len(kept) |-> <<kept[i][1], RangeIndex>>]
        out == _interp_linear_recursive(self, item, indices)
    IN  IF base.kind = "raise"
        THEN base
        ELSE [out EXCEPT !.reads = base.reads \o out.reads]

\* lines 672-673
__call__(self, item) == interp_linear(self, item)

---------------------------------------------------------------------------
(* Random-carrying objects, core.py 830-853; random_uniform,               *)
(* _scalars/scalar_named_array_functions.py 21-87; get_index of            *)
(* index_secant, core.py 703-710                                           *)
(*                                                                         *)
(* A seed is [none, value]: None, or an integer.  A generator is its seed  *)
(* and the number of values drawn from it so far.                          *)

NoSeed == [none |-> TRUE, value |-> 0]
Seed(v) == [none |-> FALSE, value |-> v]

\* np.random.default_rng(seed): a new generator at the start of its stream
default_rng(seed) == [seed |-> seed.value, pos |-> 0]

\* generator.uniform(size=size): the next `size` values of the stream
np_uniform(gen, size) == [k \in 1..size |-> (2 * gen.seed + gen.pos + k) % 5]

\* faulty variant: a seed of 0 is replaced as well
post_init_falsy(seed, python, drawn) ==
    IF seed.none \/ seed.value = 0
    THEN [seed |-> Seed(drawn), python |-> python + 1]
    ELSE [seed |-> seed, python |-> python]

\* core.py 835-837; `drawn` is what random.randint(0, 10 ** 12) returns
__post_init__(seed, python, drawn) ==
    IF seed.none
    THEN [seed |-> Seed(drawn), python |-> python + 1]
    ELSE [seed |-> seed, python |-> python]

\* faulty variant: one generator is kept and advanced by every draw
_rng_kept(self) ==
    [seed |-> self.seed.value, pos |-> self.size * Len(self.arrays)]

\* core.py 851-853
_rng(self) == default_rng(self.seed)

\* self.array of a random sample: a draw of its shape from self._rng
array(self) == np_uniform(_rng(self), self.size)

\* random_uniform; start is None, a scalar or an array that is no scalar
\* array, shape_random has `size` elements, `global` is np.random's generator
random_uniform(start, size, seed, global) ==
    CASE start = "vector" ->
            [kind |-> "NotImplemented", value |-> <<>>, global |-> global]
      [] start = "None" ->
            [kind |-> "None", value |-> <<>>, global |-> global]
      [] OTHER ->
            IF seed.none
            THEN [kind |-> "array", value |-> np_uniform(global, size),
                  global |-> [global EXCEPT !.pos = @ + size]]
            ELSE [kind |-> "array", value |-> np_uniform(default_rng(seed), size),
                  global |-> global]

\* get_index of index_secant, core.py 703-710: prints self_subspace, then
\* returns self_subspace(index) - value
get_index(self_subspace, index, value, stdout) ==
    LET value_new == __call__(self_subspace, index)
    IN  [stdout |-> stdout + 1,
         diff |-> IF value_new.kind = "return"
                  THEN [value_new EXCEPT
                           !.pts = [p \in DOMAIN @ |-> [t \in DOMAIN @[p] |->
                                       @[p][t] - value_new.den * value]],
                           !.reads = <<>>]
                  ELSE [value_new EXCEPT !.reads = <<>>]]

---------------------------------------------------------------------------
(* copy_shallow and copy, core.py 420-432; from_scalar,                    *)
(* vectors_cartesian_2d.py 62-76 and vectors_cartesian_3d.py 58-73         *)
(*                                                                         *)
(* The heap is the sequence of objects allocated; an object's identity is  *)
(* its position.  An ndarray holds data; an array instance holds its        *)
(* dataclass fields, each a reference to an object.  Fields that hold       *)
(* immutable values (axes, a default of 0) are left out.  Each object       *)
(* remembers the operation that made it and the object it was made of.     *)

Object(type, data, fields, op, of) ==
    [type |-> type, data |-> data, fields |-> fields, op |-> op, of |-> of]

\* the dataclass fields of the vector classes
FieldNames(cls) ==
    IF cls = "Cartesian2dVectorArray" THEN <<"x", "y">> ELSE <<"x", "y", "z">>

\* cls(x=scalar, y=scalar) and cls(x=scalar, y=scalar, z=scalar)
from_scalar(cls, scalar) ==
    Object(cls, 0, [i \in 1..Len(FieldNames(cls)) |-> <<FieldNames(cls)[i], scalar>>],
           "from_scalar", scalar)

\* faulty variant: the fields of the copy are duplicates
copy_duplicating(heap, id) ==
    LET dup == [i \in 1..Len(heap[id].fields) |->
                   [heap[heap[id].fields[i][2]] EXCEPT !.op = "copy_shallow"]]
    IN  heap \o dup \o
        <<Object(heap[id].type, heap[id].data,
                 [i \in 1..Len(dup) |-> <<heap[id].fields[i][1], Len(heap) + i>>],
                 "copy_shallow", id)>>

\* core.py 426-428: type(self)(**fields) with the fields of self; the new
\* object is the last of the heap returned
__copy__(heap, id) ==
    Append(heap, [heap[id] EXCEPT !.op = "copy_shallow", !.of = id])

\* faulty variant: the fields of the deep copy are those of the original
deepcopy_sharing(heap, id) ==
    Append(heap, [heap[id] EXCEPT !.op = "copy", !.of = id])

\* copy.deepcopy(obj) without a memo: an ndarray is duplicated; an array
\* instance goes through __deepcopy__ (core.py 430-432), which deep-copies
\* field after field, each with a memo of its own
RECURSIVE deepcopy(_, _)
deepcopy(heap, id) ==
    LET RECURSIVE fields_from(_, _)
        fields_from(h, k) ==
            IF k > Len(heap[id].fields)
            THEN h
            ELSE fields_from(deepcopy(h, heap[id].fields[k][2]), k + 1)
        copied == fields_from(heap, 1)
        \* the copy of field k is the last object allocated for it
        RECURSIVE ends(_, _)
        ends(h, k) ==
            IF k > Len(heap[id].fields)
            THEN <<>>
            ELSE LET next == deepcopy(h, heap[id].fields[k][2])
                 IN  <<Len(next)>> \o ends(next, k + 1)
        refs == ends(heap, 1)
    IN  Append(copied,
               Object(heap[id].type, heap[id].data,
                      [k \in 1..Len(refs) |-> <<heap[id].fields[k][1], refs[k]>>],
                      "deepcopy", id))

\* core.py 423-424, 430-432: array.copy() is copy.deepcopy(array); the new
\* object is the last of the heap returned
__deepcopy__(heap, id) ==
    LET h == deepcopy(heap, id)
    IN  [h EXCEPT ![Len(h)].op = "copy"]

---------------------------------------------------------------------------
(* Equality of arrays: the class declarations of core.py 187-1053         *)
(*                                                                         *)
(* An operand is an instance of a concrete class `sub` of the core kind    *)
(* `type`.  The concrete classes are declared with eq=False               *)
(* (vectors_cartesian_2d.py 102-116, vectors_cartesian_3d.py 103-117), so  *)
(* they take __eq__ from the kind.  `array` lists the elements the operand *)
(* materializes to.                                                        *)

\* the direct bases of the classes of core.py, as their class statements list them
Bases ==
    [NDArrayOperatorsMixin |-> <<>>,
     ABC |-> <<>>,
     AbstractArray |-> <<"NDArrayOperatorsMixin", "ABC">>,
     AbstractExplicitArray |-> <<"AbstractArray">>,
     AbstractImplicitArray |-> <<"AbstractArray">>,
     AbstractRandomMixin |-> <<"ABC">>,
     AbstractRangeMixin |-> <<"ABC">>,
     AbstractSymmetricRangeMixin |-> <<"AbstractRangeMixin">>,
     AbstractRandomSample |-> <<"AbstractRandomMixin", "AbstractImplicitArray">>,
     AbstractUniformRandomSample |-> <<"AbstractRangeMixin", "AbstractRandomSample">>,
     AbstractNormalRandomSample |-> <<"AbstractSymmetricRangeMixin", "AbstractRandomSample">>,
     AbstractParameterizedArray |-> <<"AbstractImplicitArray">>,
     AbstractLinearParameterizedArrayMixin |-> <<"ABC">>,
     AbstractArrayRange |-> <<"AbstractLinearParameterizedArrayMixin", "AbstractRangeMixin",
                              "AbstractParameterizedArray">>,
     AbstractSpace |-> <<"AbstractParameterizedArray">>,
     AbstractLinearSpace |-> <<"AbstractLinearParameterizedArrayMixin", "AbstractRangeMixin",
                               "AbstractSpace">>,
     AbstractStratifiedRandomSpace |-> <<"AbstractRandomMixin", "AbstractLinearSpace">>,
     AbstractLogarithmicSpace |-> <<"AbstractRangeMixin", "AbstractSpace">>,
     AbstractGeometricSpace |-> <<"AbstractRangeMixin", "AbstractSpace">>]

\* whether the dataclass decorator of a class generates an __eq__: it does
\* unless eq=False is given, and only line 929 does not give it
DataclassEq == [c \in DOMAIN Bases |-> c = "AbstractNormalRandomSample"]

RECURSIVE Ancestors(_)
\* a class and every class it inherits from
Ancestors(cls) ==
    {cls} \cup UNION {Ancestors(Bases[cls][i]) : i \in 1..Len(Bases[cls])}

\* the class whose __eq__ an instance of cls gets.  The method resolution
\* order lists a class before its bases, so among the ancestors that hold an
\* __eq__ (NDArrayOperatorsMixin, and the classes a decorator generated one
\* for) it is the one that inherits from all the others.
eq_owner(cls) ==
    LET holders == {c \in Ancestors(cls) : c = "NDArrayOperatorsMixin" \/ DataclassEq[c]}
    IN  CHOOSE c \in holders : holders \subseteq Ancestors(c)

EqOut(kind, value) == [kind |-> kind, value |-> value]

\* the generated __eq__ of AbstractNormalRandomSample, which had no fields
\* when it was decorated:
\*     if other.__class__ is self.__class__: return () == ()
\*     return NotImplemented
dataclass_eq(self, other) ==
    IF other.type = self.type /\ other.sub = self.sub
    THEN EqOut("bool", <<TRUE>>)
    ELSE EqOut("NotImplemented", <<>>)

\* NDArrayOperatorsMixin.__eq__: np.equal(self, other), answered by
\* __array_ufunc__ with the array of elementwise comparisons
ufunc_eq(self, other) ==
    EqOut("array", [k \in 1..Len(self.array) |-> self.array[k] = other.array[k]])

\* self.__eq__(other)
__eq__(self, other) ==
    IF DataclassEq[eq_owner(self.type)]
    THEN dataclass_eq(self, other)
    ELSE ufunc_eq(self, other)

\* a == b: the __eq__ of a, then the reflected one of b, then the identity
\* of the two objects (reached only by operands of two classes, which are
\* two objects)
eq(a, b) ==
    IF __eq__(a, b).kind # "NotImplemented" THEN __eq__(a, b)
    ELSE IF __eq__(b, a).kind # "NotImplemented" THEN __eq__(b, a)
    ELSE EqOut("bool", <<FALSE>>)

---------------------------------------------------------------------------
(* Spectral matrices, _matrices/matrices_spectral.py 15-73                 *)
(*                                                                         *)
(* A spectral matrix has one component, wavelength, which is a vector: its *)
(* only row.  The row lists the entries of its own components.             *)

MxOut(kind, exc) == [kind |-> kind, exc |-> exc]

\* lines 39-46: the body is commented out and a bare return is left
determinant(self) == MxOut("None", "")

\* lines 48-63: the body is commented out and a bare return is left
inverse(self) == MxOut("None", "")

---------------------------------------------------------------------------
(* AbstractLinearSpace.step, core.py 990-1002                              *)
(*                                                                         *)
(* start, stop and num are Python ints, or numpy values when `numpy`.  A   *)
(* quotient is held as its numerator and its denominator.                  *)

\* AbstractRangeMixin.range, lines 875-877
range(self) == self.stop - self.start

\* a / b.  Between Python ints a zero divisor raises ZeroDivisionError;
\* numpy warns and returns inf or nan, which is held as the denominator 0.
truediv(a, b, numpy) ==
    IF b = 0 /\ ~numpy
    THEN [kind |-> "raise", num |-> 0, den |-> 0, exc |-> "ZeroDivisionError"]
    ELSE [kind |-> "return", num |-> a, den |-> b, exc |-> ""]

\* lines 997-1002
step(self) ==
    IF self.endpoint
    THEN truediv(range(self), self.num - 1, self.numpy)
    ELSE truediv(range(self), self.num, self.numpy)

---------------------------------------------------------------------------
(* Readers of one random-carrying object, core.py 797-827 and 851-853      *)
(*                                                                         *)
(* A generator is an object of its own; a reader holds it by its position  *)
(* among the generators allocated.                                         *)

\* faulty variant: the generator made first is handed out again
new_generator_shared(gens, seed) ==
    IF gens = <<>>
    THEN [gens |-> <<default_rng(seed)>>, ref |-> 1]
    ELSE [gens |-> gens, ref |-> 1]

\* np.random.default_rng(seed=self.seed) of line 853: every evaluation of
\* _rng allocates a generator
new_generator(gens, seed) ==
    [gens |-> Append(gens, default_rng(seed)), ref |-> Len(gens) + 1]

---------------------------------------------------------------------------
(* The operations as they act on the objects passed to them: core.py       *)
(* 113-154 and 619-670, _named_array_functions.py 31-48                    *)
(*                                                                         *)
(* A dict or a list is an object on a heap, known by its position; a name  *)
(* of the code holds a position, and an assignment through a name changes  *)
(* the object at that position.  A call ends as [heap, kind, exc].         *)

FxOut(heap, kind, exc) == [heap |-> heap, kind |-> kind, exc |-> exc]

\* faulty variant: the name is bound to the object itself
copy_of_alias(heap, ref) == [heap |-> heap, ref |-> ref]

\* shape.copy(), item.copy(), list(arrays): a new object with the same entries
copy_of(heap, ref) == [heap |-> Append(heap, heap[ref]), ref |-> Len(heap) + 1]

\* broadcast_shapes (core.py 113-129): result is a new dict (line 114), the
\* shapes are read, line 128 builds one more dict
broadcast_shapes_on(heap, shapes) ==
    LET acc == broadcast_loop([ok |-> TRUE, result |-> <<>>],
                              [i \in 1..Len(shapes) |-> heap[shapes[i]]])
    IN  IF acc.ok
        THEN FxOut(heap \o <<acc.result, broadcast_reorder(acc.result)>>, "return", "")
        ELSE FxOut(Append(heap, acc.result), "raise", "ValueError")

\* the body of ndindex (core.py 142-154); `list` is the position of
\* axis_ignored when it is a sequence
ndindex_on(heap, shape, axis_ignored, list) ==
    LET c == copy_of(heap, shape)
        \* lines 144-147: None and a str are replaced by a new list
        made == IF axis_ignored.kind = "seq"
                THEN [heap |-> c.heap, ref |-> list]
                ELSE [heap |-> Append(c.heap, axis_ignored_list(axis_ignored)),
                      ref |-> Len(c.heap) + 1]
    IN  FxOut([made.heap EXCEPT ![c.ref] = pop_ignored(@, made.heap[made.ref])],
              "return", "")

\* _interp_linear_recursive (core.py 619-661): item is copied (line 624),
\* the copy loses its first key (line 630) and is passed on (lines 654-655)
RECURSIVE interp_on(_, _)
interp_on(heap, item) ==
    LET c == copy_of(heap, item)
    IN  IF c.heap[c.ref] = <<>> THEN FxOut(c.heap, "raise", "ValueError")
        ELSE LET popped == [c.heap EXCEPT ![c.ref] = Pop(@, Keys(@)[1])]
             IN  IF popped[c.ref] = <<>> THEN FxOut(popped, "return", "")
                 ELSE LET y0 == interp_on(popped, c.ref)
                      IN  IF y0.kind = "raise" THEN y0 ELSE interp_on(y0.heap, c.ref)

\* stack (_named_array_functions.py 38-47): without a named array among
\* them the arrays are copied into a list whose first element is wrapped
stack_on(heap, arrays) ==
    IF \E i \in 1..Len(heap[arrays]) : heap[arrays][i] = "named"
    THEN FxOut(heap, "return", "")
    ELSE LET c == copy_of(heap, arrays)
         IN  IF c.heap[c.ref] = <<>> THEN FxOut(c.heap, "raise", "IndexError")
             ELSE FxOut([c.heap EXCEPT ![c.ref][1] = "named"], "return", "")

---------------------------------------------------------------------------
(* The states in which a part of the program has not been used *)

BsIdle ==
    /\ bs_ops = <<<<>>, <<>>, <<>>>>
    /\ bs_expr = ""
    /\ bs_shapes = <<>>
    /\ bs_out = BsPending

TaIdle ==
    /\ ta_priority = [c \in Classes |-> 1]
    /\ ta_values = <<>>
    /\ ta_out = TaPending

GiIdle ==
    /\ gi_self = [type |-> "ScalarArray", accepts |-> TRUE]
    /\ gi_item = ItemOther
    /\ gi_rev = [a \in IndexArrays |-> FALSE]
    /\ gi_calls = <<>>
    /\ gi_out = GiPending

NdIdle ==
    /\ nd_shape = <<>>
    /\ nd_ignored = IgnoredNone
    /\ nd_gen = NoGenerator
    /\ nd_loops = 0
    /\ nd_loop = "none"
    /\ nd_out = <<>>
    /\ nd_seen = <<>>

IlIdle ==
    /\ il_self = [shape |-> <<>>, ndarray |-> [t \in {<<>>} |-> 0]]
    /\ il_item = <<>>
    /\ il_via = ""
    /\ il_out = IlPending

RnIdle ==
    /\ rn_python = 0
    /\ rn_numpy = [seed |-> 0, pos |-> 0]
    /\ rn_stdout = 0
    /\ rn_objs = <<>>
    /\ rn_calls = <<>>
    /\ rn_last = [op |-> "", shape |-> <<>>, diff |-> IlPending]

CpIdle == cp_heap = <<>>

EqIdle ==
    /\ eq_self = [type |-> "", sub |-> "", array |-> <<>>]
    /\ eq_other = [type |-> "", sub |-> "", array |-> <<>>]
    /\ eq_out = EqOut("pending", <<>>)

MxIdle ==
    /\ mx_self = [type |-> "", wavelength |-> [type |-> "", components |-> <<>>]]
    /\ mx_via = ""
    /\ mx_out = MxOut("pending", "")

LsIdle ==
    /\ ls_self = [start |-> 0, stop |-> 0, num |-> 0, endpoint |-> FALSE, numpy |-> FALSE]
    /\ ls_out = [kind |-> "pending", num |-> 0, den |-> 0, exc |-> ""]

RdIdle ==
    /\ rd_obj = [seed |-> NoSeed, size |-> 0]
    /\ rd_gens = <<>>
    /\ rd_readers = <<>>

FxIdle ==
    /\ fx_op = ""
    /\ fx_args = <<>>
    /\ fx_ignored = IgnoredNone
    /\ fx_heap = <<>>
    /\ fx_out = [kind |-> "pending", exc |-> ""]

RcIdle ==
    /\ rc_python = 0
    /\ rc_objs = <<>>

\* the parts of the program other than `part` have not been used
IdleExcept(part) ==
    /\ IF part = "bs" THEN TRUE ELSE BsIdle
    /\ IF part = "ta" THEN TRUE ELSE TaIdle
    /\ IF part = "gi" THEN TRUE ELSE GiIdle
    /\ IF part = "nd" THEN TRUE ELSE NdIdle
    /\ IF part = "il" THEN TRUE ELSE IlIdle
    /\ IF part = "rn" THEN TRUE ELSE RnIdle
    /\ IF part = "cp" THEN TRUE ELSE CpIdle
    /\ IF part = "eq" THEN TRUE ELSE EqIdle
    /\ IF part = "mx" THEN TRUE ELSE MxIdle
    /\ IF part = "ls" THEN TRUE ELSE LsIdle
    /\ IF part = "rd" THEN TRUE ELSE RdIdle
    /\ IF part = "fx" THEN TRUE ELSE FxIdle
    /\ IF part = "rc" THEN TRUE ELSE RcIdle

---------------------------------------------------------------------------
(* Callers of broadcast_shapes *)

Sizes == 0..MaxSize

\* every order of every subset of the axis names
AxisOrders ==
    UNION {{p \in [1..n -> Axes] : \A i, j \in 1..n : i # j => p[i] # p[j]} :
           n \in 0..Cardinality(Axes)}

\* every named shape over Axes with sizes in Sizes
NamedShapes ==
    UNION {{[i \in 1..Len(p) |-> <<p[i], f[i]>>] : f \in [1..Len(p) -> Sizes]} :
           p \in AxisOrders}

\* the shapes of the end-to-end scenario: {"x":3,"y":1} and {"y":4,"z":2}
ScenarioA == << <<"x", 3>>, <<"y", 1>> >>
ScenarioB == << <<"y", 4>>, <<"z", 2>> >>

BsInit ==
    /\ bs_ops \in (NamedShapes \X NamedShapes \X NamedShapes)
                      \cup {<<ScenarioA, ScenarioB, <<>>>>}
    /\ bs_expr = ""
    /\ bs_shapes = <<>>
    /\ bs_out = BsPending
    /\ IdleExcept("bs")

\* the argument lists a caller forms from A, B, C
BsArgs(expr) ==
    CASE expr = "()"  -> <<>>
      [] expr = "A"   -> <<bs_ops[1]>>
      [] expr = "AB"  -> <<bs_ops[1], bs_ops[2]>>
      [] expr = "BA"  -> <<bs_ops[2], bs_ops[1]>>
      [] expr = "BC"  -> <<bs_ops[2], bs_ops[3]>>
      [] expr = "ABC" -> <<bs_ops[1], bs_ops[2], bs_ops[3]>>

\* broadcast_shapes(*args)
Broadcast(expr) ==
    /\ bs_expr' = expr
    /\ bs_shapes' = BsArgs(expr)
    /\ bs_out' = broadcast_shapes(BsArgs(expr))
    /\ UNCHANGED <<bs_ops>> /\ Frame("bs")

\* broadcast_shapes(broadcast_shapes(A, B), C): an error of the inner call propagates
BroadcastLeft ==
    /\ bs_expr = "AB"
    /\ bs_expr' = "(AB)C"
    /\ IF bs_out.kind = "raise"
       THEN UNCHANGED <<bs_shapes, bs_out>>
       ELSE /\ bs_shapes' = <<bs_out.value, bs_ops[3]>>
            /\ bs_out' = broadcast_shapes(<<bs_out.value, bs_ops[3]>>)
    /\ UNCHANGED <<bs_ops>> /\ Frame("bs")

\* broadcast_shapes(A, broadcast_shapes(B, C))
BroadcastRight ==
    /\ bs_expr = "BC"
    /\ bs_expr' = "A(BC)"
    /\ IF bs_out.kind = "raise"
       THEN UNCHANGED <<bs_shapes, bs_out>>
       ELSE /\ bs_shapes' = <<bs_ops[1], bs_out.value>>
            /\ bs_out' = broadcast_shapes(<<bs_ops[1], bs_out.value>>)
    /\ UNCHANGED <<bs_ops>> /\ Frame("bs")

BsNext ==
    \/ \E expr \in {"()", "A", "AB", "BA", "BC", "ABC"} : Broadcast(expr)
    \/ BroadcastLeft
    \/ BroadcastRight

SpecBroadcast == BsInit /\ [][BsNext]_vars

---------------------------------------------------------------------------
(* Callers of type_array *)

Operands == {NotArray} \cup {NamedArray(c) : c \in Classes}

TaInit ==
    /\ ta_priority \in [Classes -> Priorities]
    /\ ta_values \in UNION {[1..n -> Operands] : n \in 0..MaxOperands}
    /\ ta_out = TaPending
    /\ IdleExcept("ta")

\* type_array(*values)
TypeArray ==
    /\ ta_out.kind = "pending"
    /\ ta_out' = type_array(ta_values, ta_priority)
    /\ UNCHANGED <<ta_priority, ta_values>> /\ Frame("ta")

TaNext == TypeArray

SpecTypeArray == TaInit /\ [][TaNext]_vars

---------------------------------------------------------------------------
(* Indexing an array *)

\* every dict from distinct axis names, in every order, to index values
ItemDicts ==
    UNION {{[i \in 1..Len(p) |-> <<p[i], f[i]>>] :
                f \in [1..Len(p) -> PlainIndices \cup IndexArrays]} :
           p \in AxisOrders}

Items == {ItemDict(d) : d \in ItemDicts} \cup {ItemArray(a) : a \in IndexArrays}
             \cup {ItemOther}

GiInit ==
    /\ gi_self \in [type : Classes, accepts : BOOLEAN]
    /\ gi_item \in Items
    /\ gi_rev \in [IndexArrays -> BOOLEAN]
    /\ gi_calls = <<>>
    /\ gi_out = GiPending
    /\ IdleExcept("gi")

\* self[item]
GetItem ==
    /\ gi_out.kind = "pending"
    /\ gi_out' = getitem(gi_self, gi_item, gi_rev).out
    /\ gi_calls' = getitem(gi_self, gi_item, gi_rev).calls
    /\ UNCHANGED <<gi_self, gi_item, gi_rev>> /\ Frame("gi")

GiNext == GetItem

SpecGetItem == GiInit /\ [][GiNext]_vars

---------------------------------------------------------------------------
(* Iterating over ndindex *)

\* names passed as ignored axes: the axis names and one no shape carries
IgnoredNames == Axes \cup {"w"}

IgnoredArgs ==
    {IgnoredNone} \cup {IgnoredStr(a) : a \in IgnoredNames}
        \cup {IgnoredSeq(s) : s \in UNION {[1..n -> IgnoredNames] : n \in 0..Cardinality(Axes)}}

NdInit ==
    /\ nd_shape \in NamedShapes
    /\ nd_ignored \in IgnoredArgs
    /\ nd_gen = NoGenerator
    /\ nd_loops = 0
    /\ nd_loop = "none"
    /\ nd_out = <<>>
    /\ nd_seen = <<>>
    /\ IdleExcept("nd")

\* gen = ndindex(shape, axis_ignored), or array.ndindex(axis_ignored) with
\* shape = array.shape
NdindexCall ==
    /\ nd_gen.state = "none"
    /\ nd_gen' = ndindex(nd_shape, nd_ignored)
    /\ UNCHANGED <<nd_shape, nd_ignored, nd_loops, nd_loop, nd_out, nd_seen>> /\ Frame("nd")

\* for index in gen: an iteration over the object begins
GeneratorIter ==
    /\ nd_gen.state # "none"
    /\ nd_loop # "running"
    /\ nd_loops < MaxLoops
    /\ nd_gen' = generator_iter(nd_gen)
    /\ nd_loops' = nd_loops + 1
    /\ nd_loop' = "running"
    /\ nd_out' = <<>>
    /\ UNCHANGED <<nd_shape, nd_ignored, nd_seen>> /\ Frame("nd")

\* next(gen): the body runs to its next yield, or returns (StopIteration)
GeneratorNext ==
    /\ nd_loop = "running"
    /\ LET yields == ndindex_yields(nd_shape, nd_ignored)
       IN  IF nd_gen.state # "closed" /\ nd_gen.n < Len(yields)
           THEN /\ nd_gen' = [state |-> "suspended", n |-> nd_gen.n + 1]
                /\ nd_out' = Append(nd_out, yields[nd_gen.n + 1])
                /\ nd_seen' = Append(nd_seen, yields[nd_gen.n + 1])
                /\ UNCHANGED nd_loop
           ELSE /\ nd_gen' = [state |-> "closed", n |-> nd_gen.n]
                /\ nd_loop' = "exhausted"
                /\ UNCHANGED <<nd_out, nd_seen>>
    /\ UNCHANGED <<nd_shape, nd_ignored, nd_loops>> /\ Frame("nd")

\* break: the caller leaves the loop before the generator is exhausted
LoopBreak ==
    /\ nd_loop = "running"
    /\ nd_loop' = "broken"
    /\ UNCHANGED <<nd_shape, nd_ignored, nd_gen, nd_loops, nd_out, nd_seen>> /\ Frame("nd")

NdNext == NdindexCall \/ GeneratorIter \/ GeneratorNext \/ LoopBreak

SpecNdindex == NdInit /\ [][NdNext]_vars

---------------------------------------------------------------------------
(* Callers of interp_linear *)

\* the arrays interpolated: one axis "i" of 0..MaxLen elements, or two axes
\* "i", "j" of one or two elements each; every element is 0 or 1
Grids ==
    LET shapes == {<< <<"i", n>> >> : n \in 0..MaxLen}
                  \cup {<< <<"i", n>>, <<"j", m>> >> : n, m \in {1, 2}}
    IN  UNION {{[shape |-> s, ndarray |-> f] : f \in [IndexTuples(s) -> {0, 1}]} :
               s \in shapes}

\* every dict that gives coordinates to some of `axes`, in every key order.
\* The coordinates on an axis of size n run from just below 0 to n; they are
\* single numbers or arrays, of up to MaxPoints elements for a one-axis
\* array and of one element for a two-axis array.
RECURSIVE ItemsOver(_, _)
ItemsOver(shape, axes) ==
    LET values(n) == -1..(Den * n)
        lengths == 1..(IF Len(shape) = 1 THEN MaxPoints ELSE 1)
        coordinates(n) ==
            {[array |-> FALSE, at |-> <<xh>>] : xh \in values(n)}
            \cup UNION {{[array |-> TRUE, at |-> at] : at \in [1..l -> values(n)]} :
                        l \in lengths}
    IN  {<<>>} \cup
        UNION {{<< <<a, c>> >> \o item :
                   c \in coordinates(Get(shape, a)),
                   item \in ItemsOver(shape, axes \ {a})} :
               a \in axes}

\* the coordinate arrays of one item share an axis, so their lengths broadcast
ItemsOf(self) ==
    {item \in ItemsOver(self.shape, KeySet(self.shape)) :
        \A i, j \in 1..Len(item) :
            \/ Len(item[i][2].at) = Len(item[j][2].at)
            \/ Len(item[i][2].at) = 1
            \/ Len(item[j][2].at) = 1}

IlInit ==
    /\ il_self \in Grids
    /\ il_item \in ItemsOf(il_self)
    /\ il_via = ""
    /\ il_out = IlPending
    /\ IdleExcept("il")

\* array.interp_linear(item) or array(item)
InterpLinear(via) ==
    /\ il_via' = via
    /\ il_out' = IF via = "__call__"
                 THEN __call__(il_self, il_item)
                 ELSE interp_linear(il_self, il_item)
    /\ UNCHANGED <<il_self, il_item>> /\ Frame("il")

IlNext == \E via \in {"interp_linear", "__call__"} : InterpLinear(via)

SpecInterp == IlInit /\ [][IlNext]_vars

---------------------------------------------------------------------------
(* Users of random-carrying objects and of random_uniform *)

\* the process starts with np.random seeded from the system
RnInit ==
    /\ rn_python = 0
    /\ rn_numpy \in {[seed |-> e, pos |-> 0] : e \in 0..MaxSeed}
    /\ rn_stdout = 0
    /\ rn_objs = <<>>
    /\ rn_calls = <<>>
    /\ rn_last = [op |-> "", shape |-> <<>>, diff |-> IlPending]
    /\ IdleExcept("rn")

\* the dataclass __init__ stores the arguments, then runs __post_init__; two
\* objects are constructed
Construct(seed, size) ==
    /\ Len(rn_objs) < 2
    /\ \E drawn \in 0..MaxSeed :
          LET post == __post_init__(seed, rn_python, drawn)
          IN  /\ rn_objs' = Append(rn_objs, [given |-> seed, seed |-> post.seed,
                                             size |-> size, arrays |-> <<>>])
              /\ rn_python' = post.python
    /\ UNCHANGED <<rn_numpy, rn_stdout, rn_calls, rn_last>> /\ Frame("rn")

\* obj.array (or obj.explicit)
Materialize(o) ==
    /\ Len(rn_objs[o].arrays) < MaxCalls
    /\ rn_objs' = [rn_objs EXCEPT ![o].arrays = Append(@, array(rn_objs[o]))]
    /\ UNCHANGED <<rn_python, rn_numpy, rn_stdout, rn_calls, rn_last>> /\ Frame("rn")

\* obj.shape, forwarded to self.array.shape (core.py 821-823)
ReadShape(o) ==
    /\ rn_last' = [op |-> "shape", shape |-> << <<"x", Len(array(rn_objs[o]))>> >>,
                   diff |-> IlPending]
    /\ UNCHANGED <<rn_python, rn_numpy, rn_stdout, rn_objs, rn_calls>> /\ Frame("rn")

\* random_uniform(start, stop, shape_random, seed), shape_random of 2 elements
RandomUniform(start, size, seed) ==
    /\ Len(rn_calls) < MaxCalls
    /\ LET out == random_uniform(start, size, seed, rn_numpy)
       IN  /\ rn_calls' = Append(rn_calls, [start |-> start, size |-> size, seed |-> seed,
                                            kind |-> out.kind, value |-> out.value])
           /\ rn_numpy' = out.global
    /\ UNCHANGED <<rn_python, rn_stdout, rn_objs, rn_last>> /\ Frame("rn")

\* one evaluation of get_index by the secant search
GetIndex(self, index, value) ==
    /\ rn_stdout < MaxCalls
    /\ LET out == get_index(self, index, value, rn_stdout)
       IN  /\ rn_stdout' = out.stdout
           /\ rn_last' = [op |-> "get_index", shape |-> <<>>, diff |-> out.diff]
    /\ UNCHANGED <<rn_python, rn_numpy, rn_objs, rn_calls>> /\ Frame("rn")

RnNext ==
    \/ \E seed \in {Seed(v) : v \in 0..MaxSeed} \cup {NoSeed}, size \in 1..2 :
          Construct(seed, size)
    \/ \E o \in 1..Len(rn_objs) : Materialize(o)
    \/ \E o \in 1..Len(rn_objs) : ReadShape(o)

SpecRandom == RnInit /\ [][RnNext]_vars

RuNext ==
    \/ \E start \in {"None", "scalar", "vector"},
          seed \in {Seed(v) : v \in 0..MaxSeed} \cup {NoSeed} :
          RandomUniform(start, 2, seed)
    \/ \E x \in {0, 1}, value \in {0, 1} :
          GetIndex([shape |-> << <<"i", 2>> >>, ndarray |-> (<<0>> :> 0 @@ <<1>> :> 1)],
                   << <<"i", [array |-> FALSE, at |-> <<x>>]>> >>, value)

SpecUniform == RnInit /\ [][RuNext]_vars

---------------------------------------------------------------------------
(* Users of arrays and vectors *)

CpInit == cp_heap = <<>> /\ IdleExcept("cp")

\* the instances of array classes on the heap, of the given types
Instances(types) == {i \in 1..Len(cp_heap) : cp_heap[i].type \in types}

VectorClasses == {"Cartesian2dVectorArray", "Cartesian3dVectorArray"}

\* the objects made by one of the operations `ops`
MadeBy(ops) == {i \in 1..Len(cp_heap) : cp_heap[i].op \in ops}

\* ScalarArray(ndarray) over a new ndarray of zeros
NewScalar ==
    /\ Cardinality(Instances({"ScalarArray"}) \cap MadeBy({"new"})) < MaxScalars
    /\ cp_heap' = cp_heap \o <<Object("ndarray", 0, <<>>, "new", 0),
                               Object("ScalarArray", 0, << <<"ndarray", Len(cp_heap) + 1>> >>,
                                      "new", 0)>>
    /\ Frame("cp")

\* cls(x=..., y=...) or cls(x=..., y=..., z=...) with scalar arrays at hand
NewVector(cls, components) ==
    /\ Cardinality(Instances(VectorClasses) \cap MadeBy({"new", "from_scalar"})) < MaxVectors
    /\ cp_heap' = Append(cp_heap,
           Object(cls, 0,
                  [i \in 1..Len(FieldNames(cls)) |-> <<FieldNames(cls)[i], components[i]>>],
                  "new", 0))
    /\ Frame("cp")

FromScalar(cls, scalar) ==
    /\ Cardinality(Instances(VectorClasses) \cap MadeBy({"new", "from_scalar"})) < MaxVectors
    /\ cp_heap' = Append(cp_heap, from_scalar(cls, scalar))
    /\ Frame("cp")

\* array.copy_shallow()
CopyShallow(id) ==
    /\ Cardinality(MadeBy({"copy_shallow", "copy"})) < MaxCopies
    /\ cp_heap' = __copy__(cp_heap, id)
    /\ Frame("cp")

\* array.copy()
Copy(id) ==
    /\ Cardinality(MadeBy({"copy_shallow", "copy"})) < MaxCopies
    /\ cp_heap' = __deepcopy__(cp_heap, id)
    /\ Frame("cp")

\* a write into the backing data of an array, in place
SetData(id) ==
    /\ cp_heap[id].data = 0
    /\ Cardinality({i \in Instances({"ndarray"}) : cp_heap[i].data # 0}) < MaxWrites
    /\ cp_heap' = [cp_heap EXCEPT ![id].data = 1]
    /\ Frame("cp")

CpNext ==
    \/ NewScalar
    \/ \E cls \in VectorClasses :
          \E components \in [1..Len(FieldNames(cls)) -> Instances({"ScalarArray"})] :
              NewVector(cls, components)
    \/ \E cls \in VectorClasses, scalar \in Instances({"ScalarArray"}) :
          FromScalar(cls, scalar)
    \/ \E id \in Instances(VectorClasses \cup {"ScalarArray"}) : CopyShallow(id)
    \/ \E id \in Instances(VectorClasses \cup {"ScalarArray"}) : Copy(id)
    \/ \E id \in Instances({"ndarray"}) : SetData(id)

SpecCopy == CpInit /\ [][CpNext]_vars

---------------------------------------------------------------------------
(* Comparing two arrays *)

\* two arrays are at hand: instances of the array kinds of the core, each of
\* the 2d or of the 3d concrete class of its kind, with MaxPoints elements
EqInit ==
    LET operands == [type : {c \in DOMAIN Bases : "AbstractArray" \in Ancestors(c)},
                     sub : {"2d", "3d"},
                     array : [1..MaxPoints -> {0, 1}]]
    IN  /\ eq_self \in operands
        /\ eq_other \in operands
        /\ eq_out = EqOut("pending", <<>>)
        /\ IdleExcept("eq")

\* eq_self == eq_other
Eq ==
    /\ eq_out.kind = "pending"
    /\ eq_out' = eq(eq_self, eq_other)
    /\ UNCHANGED <<eq_self, eq_other>>
    /\ Frame("eq")

SpecEq == EqInit /\ [][Eq]_vars

---------------------------------------------------------------------------
(* Reading the properties of a spectral matrix *)

MxInit == MxIdle /\ IdleExcept("mx")

\* self.determinant
Determinant(self) ==
    /\ mx_self' = self
    /\ mx_via' = "determinant"
    /\ mx_out' = determinant(self)
    /\ Frame("mx")

\* self.inverse
Inverse(self) ==
    /\ mx_self' = self
    /\ mx_via' = "inverse"
    /\ mx_out' = inverse(self)
    /\ Frame("mx")

\* the properties are read of the spectral matrices whose row is a spectral
\* vector (one component), a 2d vector or a 3d vector
MxNext ==
    LET RowsOf(cls) ==
            [type : {cls},
             components : [1..(IF cls = "SpectralVectorArray" THEN 1
                               ELSE Len(FieldNames(cls))) -> 0..MaxEntry]]
        SpectralMatrices ==
            UNION {[type : {"SpectralMatrixArray"}, wavelength : RowsOf(cls)] :
                   cls \in VectorClasses \cup {"SpectralVectorArray"}}
    IN  \/ \E self \in SpectralMatrices : Determinant(self)
        \/ \E self \in SpectralMatrices : Inverse(self)

SpecMatrix == MxInit /\ [][MxNext]_vars

---------------------------------------------------------------------------
(* Reading the step of a linear space *)

\* a linear space is at hand
LsInit ==
    /\ ls_self \in [start : 0..MaxSize, stop : 0..MaxSize, num : 0..MaxLen,
                    endpoint : BOOLEAN, numpy : BOOLEAN]
    /\ ls_out = [kind |-> "pending", num |-> 0, den |-> 0, exc |-> ""]
    /\ IdleExcept("ls")

\* ls_self.step
Step ==
    /\ ls_out.kind = "pending"
    /\ ls_out' = step(ls_self)
    /\ UNCHANGED ls_self
    /\ Frame("ls")

SpecLinearSpace == LsInit /\ [][Step]_vars

---------------------------------------------------------------------------
(* Several readers of one object *)

\* an object has been constructed, so its seed is set; no reader has begun
RdInit ==
    /\ rd_obj \in [seed : {Seed(v) : v \in 0..MaxSeed}, size : 1..2]
    /\ rd_gens = <<>>
    /\ rd_readers = [r \in 1..MaxReaders |-> [pc |-> "idle", what |-> "", gen |-> 0, out |-> <<>>]]
    /\ IdleExcept("rd")

\* reader r begins to read a property: self.array evaluates self._rng
ReadRng(r, what) ==
    /\ rd_readers[r].pc = "idle"
    /\ LET new == new_generator(rd_gens, rd_obj.seed)
       IN  /\ rd_gens' = new.gens
           /\ rd_readers' = [rd_readers EXCEPT ![r] =
                                [pc |-> "rng", what |-> what, gen |-> new.ref, out |-> <<>>]]
    /\ UNCHANGED rd_obj
    /\ Frame("rd")

\* reader r draws self.array from its generator and takes the property of it
Draw(r) ==
    /\ rd_readers[r].pc = "rng"
    /\ LET gen == rd_gens[rd_readers[r].gen]
           drawn == np_uniform(gen, rd_obj.size)
       IN  /\ rd_gens' = [rd_gens EXCEPT ![rd_readers[r].gen].pos = @ + rd_obj.size]
           /\ rd_readers' = [rd_readers EXCEPT
                                ![r].pc = "done",
                                ![r].out = IF rd_readers[r].what = "shape"
                                           THEN <<Len(drawn)>> ELSE drawn]
    /\ UNCHANGED rd_obj
    /\ Frame("rd")

RdNext ==
    \/ \E r \in 1..MaxReaders, what \in {"ndarray", "shape"} : ReadRng(r, what)
    \/ \E r \in 1..MaxReaders : Draw(r)

SpecReaders == RdInit /\ [][RdNext]_vars

---------------------------------------------------------------------------
(* Callers that keep the objects they pass *)

\* a caller holds the arguments of one call
FxInit ==
    /\ fx_out = [kind |-> "pending", exc |-> ""]
    /\ \/ /\ fx_op = "broadcast_shapes"
          /\ fx_heap \in NamedShapes \X NamedShapes
          /\ fx_args = <<1, 2>>
          /\ fx_ignored = IgnoredNone
       \/ /\ fx_op = "ndindex"
          /\ \E shape \in NamedShapes, axis_ignored \in IgnoredArgs :
                /\ fx_heap = IF axis_ignored.kind = "seq"
                             THEN <<shape, axis_ignored.seq>> ELSE <<shape>>
                /\ fx_args = IF axis_ignored.kind = "seq" THEN <<1, 2>> ELSE <<1>>
                /\ fx_ignored = [axis_ignored EXCEPT !.seq = <<>>]
       \/ /\ fx_op = "interp_linear"
          /\ \E p \in AxisOrders : fx_heap = <<[i \in 1..Len(p) |-> <<p[i], 0>>]>>
          /\ fx_args = <<1>>
          /\ fx_ignored = IgnoredNone
       \/ /\ fx_op = "stack"
          /\ \E arrays \in UNION {[1..n -> {"named", "plain"}] : n \in 0..MaxOperands} :
                fx_heap = <<arrays>>
          /\ fx_args = <<1>>
          /\ fx_ignored = IgnoredNone
    /\ IdleExcept("fx")

\* the call has ended as `out`
FxDone(out) ==
    /\ fx_heap' = out.heap
    /\ fx_out' = [kind |-> out.kind, exc |-> out.exc]
    /\ UNCHANGED <<fx_op, fx_args, fx_ignored>>
    /\ Frame("fx")

\* broadcast_shapes(A, B)
FxBroadcastShapes ==
    /\ fx_op = "broadcast_shapes" /\ fx_out.kind = "pending"
    /\ FxDone(broadcast_shapes_on(fx_heap, fx_args))

\* for index in ndindex(shape, axis_ignored): pass
FxNdindex ==
    /\ fx_op = "ndindex" /\ fx_out.kind = "pending"
    /\ FxDone(ndindex_on(fx_heap, 1, fx_ignored, 2))

\* array.interp_linear(item)
FxInterpLinear ==
    /\ fx_op = "interp_linear" /\ fx_out.kind = "pending"
    /\ FxDone(interp_on(fx_heap, 1))

\* stack(arrays, axis)
FxStack ==
    /\ fx_op = "stack" /\ fx_out.kind = "pending"
    /\ FxDone(stack_on(fx_heap, 1))

FxNext == FxBroadcastShapes \/ FxNdindex \/ FxInterpLinear \/ FxStack

SpecFrame == FxInit /\ [][FxNext]_vars

---------------------------------------------------------------------------
(* Copies of random-carrying objects *)

RcInit == RcIdle /\ IdleExcept("rc")

\* type(self)(**fields) with the seed `seed`: the dataclass __init__ stores
\* the fields, then runs __post_init__ (core.py 835-837); `of` is the object
\* the fields were taken from, 0 for a construction by the caller
RcMake(op, of, seed, size) ==
    /\ Len(rc_objs) <= MaxCopies
    /\ \E drawn \in 0..MaxSeed :
          LET post == __post_init__(seed, rc_python, drawn)
          IN  /\ rc_objs' = Append(rc_objs, [op |-> op, of |-> of, given |-> seed,
                                             seed |-> post.seed, size |-> size])
              /\ rc_python' = post.python
    /\ Frame("rc")

\* cls(..., seed=seed)
RcConstruct(seed, size) == RcMake("new", 0, seed, size)

\* faulty variant: the copy is built from the seed argument the original
\* was given
copy_shallow_as_given(o) ==
    RcMake("copy_shallow", o, rc_objs[o].given, rc_objs[o].size)

\* obj.copy_shallow(): __copy__ passes the fields of obj on (core.py 426-428)
RcCopyShallow(o) == RcMake("copy_shallow", o, rc_objs[o].seed, rc_objs[o].size)

\* obj.copy(): __deepcopy__ passes deep copies of the fields on (core.py
\* 430-432); the deep copy of an int is that int
RcCopy(o) == RcMake("copy", o, rc_objs[o].seed, rc_objs[o].size)

RcNext ==
    \/ \E seed \in {Seed(v) : v \in 0..MaxSeed} \cup {NoSeed}, size \in 1..2 :
          RcConstruct(seed, size)
    \/ \E o \in 1..Len(rc_objs) : RcCopyShallow(o)
    \/ \E o \in 1..Len(rc_objs) : RcCopy(o)

SpecRandomCopy == RcInit /\ [][RcNext]_vars

---------------------------------------------------------------------------
(* The whole program *)

Init ==
    BsInit \/ TaInit \/ GiInit \/ NdInit \/ IlInit \/ RnInit \/ CpInit \/ EqInit \/ MxInit \/ LsInit \/ RdInit \/ FxInit \/ RcInit

Next ==
    \/ BsNext \/ TaNext \/ GiNext \/ NdNext \/ IlNext \/ RnNext \/ RuNext \/ CpNext
    \/ Eq \/ MxNext \/ Step \/ RdNext \/ FxNext \/ RcNext

Spec == Init /\ [][Next]_vars

---------------------------------------------------------------------------
(* Properties of broadcast_shapes *)

\* the axis names of all the inputs
AllAxes(shapes) == UNION {KeySet(shapes[i]) : i \in 1..Len(shapes)}

\* the sizes the inputs that carry an axis give it
SizesOf(shapes, axis) ==
    {Get(shapes[i], axis) : i \in {j \in 1..Len(shapes) : HasKey(shapes[j], axis)}}

\* two inputs give one axis two different sizes, both not 1
Conflicting(s, t) ==
    \E axis \in KeySet(s) \cap KeySet(t) :
        /\ Get(s, axis) # Get(t, axis)
        /\ Get(s, axis) # 1
        /\ Get(t, axis) # 1

Conflict(shapes) ==
    \E i, j \in 1..Len(shapes) : Conflicting(shapes[i], shapes[j])

\* C1: when broadcast_shapes returns, the result holds every axis name of the
\* inputs exactly once and no other, and each axis has the size all inputs
\* carrying it agree on, or k when some give 1 and all the others give k.
C1_BroadcastResult ==
    bs_out.kind = "return" =>
        LET r == bs_out.value
        IN  /\ \A i, j \in 1..Len(r) : i # j => r[i][1] # r[j][1]
            /\ KeySet(r) = AllAxes(bs_shapes)
            /\ \A axis \in KeySet(r) :
                   LET given == SizesOf(bs_shapes, axis)
                   IN  \/ given = {Get(r, axis)}
                       \/ /\ Get(r, axis) # 1
                          /\ given = {1, Get(r, axis)}

\* a call of three shapes returned, one axis was given 1 and k by different inputs
C1_Witness ==
    /\ bs_expr = "ABC"
    /\ bs_out.kind = "return"
    /\ \E axis \in KeySet(bs_out.value) :
           /\ Cardinality(SizesOf(bs_shapes, axis)) = 2
           /\ Get(bs_shapes[1], axis) = 1
    /\ \E axis \in KeySet(bs_out.value) : ~HasKey(bs_shapes[1], axis)

\* C2: broadcast_shapes raises, with an error that carries the conflicting
\* shapes, exactly when two of its inputs give one axis two different sizes
\* that are both not 1, wherever they stand; then no shape is returned.
C2_MismatchRaises ==
    bs_out.kind # "pending" =>
        /\ (bs_out.kind = "raise") <=> Conflict(bs_shapes)
        /\ bs_out.kind = "raise" =>
               /\ bs_out.value = <<>>
               /\ \E i, j \in 1..Len(bs_out.shapes) :
                      Conflicting(bs_out.shapes[i], bs_out.shapes[j])
               /\ bs_out.shapes = bs_shapes

\* the first and the last of three inputs conflict, a size-1 entry lies between
C2_Witness ==
    /\ bs_expr = "ABC"
    /\ bs_out.kind = "raise"
    /\ \E axis \in Axes :
           /\ HasKey(bs_shapes[1], axis) /\ HasKey(bs_shapes[2], axis)
           /\ HasKey(bs_shapes[3], axis)
           /\ Get(bs_shapes[2], axis) = 1
    /\ Conflicting(bs_shapes[1], bs_shapes[3])
    /\ ~Conflicting(bs_shapes[1], bs_shapes[2])
    /\ ~Conflicting(bs_shapes[2], bs_shapes[3])

\* the call broadcast_shapes({"x":3,"y":1}, {"y":4,"z":2}) has run
Scenario ==
    /\ bs_expr = "AB"
    /\ bs_shapes = <<ScenarioA, ScenarioB>>

\* C3 as stated: the scenario yields the ordered shape {z:2, y:4, x:3}.
C3_ScenarioAsStated ==
    Scenario => bs_out = BsReturn(<< <<"z", 2>>, <<"y", 4>>, <<"x", 3>> >>)

\* C3: broadcasting {x:3, y:1} and {y:4, z:2}, in that order, yields exactly
\* the keys z, x, y, in that order, with sizes 2, 3 and 4.
C3_Scenario ==
    Scenario => bs_out = BsReturn(<< <<"z", 2>>, <<"x", 3>>, <<"y", 4>> >>)

C3_Witness ==
    /\ Scenario
    /\ bs_out.kind = "return"
    /\ KeySet(bs_out.value) = {"x", "y", "z"}

\* both fail, or both return the same axis names with the same sizes
SameSizes(o1, o2) ==
    /\ (o1.kind = "raise") <=> (o2.kind = "raise")
    /\ o1.kind = "return" =>
           /\ KeySet(o1.value) = KeySet(o2.value)
           /\ \A axis \in KeySet(o1.value) : Get(o1.value, axis) = Get(o2.value, axis)

\* C4: broadcast_shapes(A, B) and broadcast_shapes(B, A) both fail or both
\* return the same size for every axis name.
C4_Commutative ==
    /\ bs_expr = "AB" => SameSizes(bs_out, broadcast_shapes(<<bs_ops[2], bs_ops[1]>>))
    /\ bs_expr = "BA" => SameSizes(bs_out, broadcast_shapes(<<bs_ops[1], bs_ops[2]>>))

\* B, A returned, the two orders of the arguments give different key orders,
\* and an axis got its size from the input that did not give 1
C4_Witness ==
    /\ bs_expr = "BA"
    /\ bs_out.kind = "return"
    /\ bs_out.value # broadcast_shapes(<<bs_ops[1], bs_ops[2]>>).value
    /\ \E axis \in KeySet(bs_ops[1]) \cap KeySet(bs_ops[2]) :
           Get(bs_ops[1], axis) # Get(bs_ops[2], axis)

\* C5: broadcast_shapes(broadcast_shapes(A, B), C) and
\* broadcast_shapes(A, broadcast_shapes(B, C)) each fail exactly when
\* broadcast_shapes(A, B, C) fails and otherwise return the same ordered shape.
C5_Associative ==
    bs_expr \in {"(AB)C", "A(BC)"} =>
        LET flat == broadcast_shapes(bs_ops)
        IN  /\ (bs_out.kind = "raise") <=> (flat.kind = "raise")
            /\ bs_out.kind = "return" => bs_out.value = flat.value

\* a nested call returned two axes, A, B and C carrying different axis sets
\* and the outer call having raised a size from 1
C5_Witness ==
    /\ bs_expr = "A(BC)"
    /\ bs_out.kind = "return"
    /\ Len(bs_out.value) = 2
    /\ KeySet(bs_ops[1]) # KeySet(bs_ops[2])
    /\ KeySet(bs_ops[2]) # KeySet(bs_ops[3])
    /\ \E axis \in KeySet(bs_shapes[1]) \cap KeySet(bs_shapes[2]) :
           Get(bs_shapes[1], axis) # Get(bs_shapes[2], axis)

---------------------------------------------------------------------------
(* Properties of type_array *)

\* the positions of the operands that are named arrays
ArrayOperands(values) == {i \in 1..Len(values) : values[i].array}

\* the first, in argument order, of the named-array operands of highest priority
FirstHighest(values, priority) ==
    CHOOSE i \in ArrayOperands(values) :
        /\ \A j \in ArrayOperands(values) :
               priority[values[j].cls] <= priority[values[i].cls]
        /\ \A j \in ArrayOperands(values) :
               j < i => priority[values[j].cls] < priority[values[i].cls]

\* C6 as stated: with at least one named-array operand, type_array returns the
\* explicit type of the first operand of highest priority, whatever that
\* priority is.
C6_HighestPriorityAsStated ==
    (ta_out.kind = "return" /\ ArrayOperands(ta_values) # {}) =>
        ta_out.cls = ta_values[FirstHighest(ta_values, ta_priority)].cls

\* C6: with at least one named-array operand, type_array returns the explicit
\* type of the first operand of highest priority when that priority is
\* greater than 0, and None when it is not; other operands are ignored.
C6_HighestPriority ==
    (ta_out.kind = "return" /\ ArrayOperands(ta_values) # {}) =>
        LET first == ta_values[FirstHighest(ta_values, ta_priority)]
        IN  IF ta_priority[first.cls] > 0
            THEN ta_out.cls = first.cls
            ELSE ta_out.cls = "None"

\* two named arrays of different types tie at the highest priority, after an
\* operand that is no named array and one of lower priority
C6_Witness ==
    /\ ta_out.kind = "return"
    /\ Len(ta_values) = MaxOperands
    /\ ~ta_values[1].array
    /\ \E i, j \in ArrayOperands(ta_values) :
           /\ i < j
           /\ ta_values[i].cls # ta_values[j].cls
           /\ ta_priority[ta_values[i].cls] = ta_priority[ta_values[j].cls]
           /\ ta_priority[ta_values[i].cls] > 0
           /\ i = FirstHighest(ta_values, ta_priority)
           /\ ta_out.cls = ta_values[i].cls

---------------------------------------------------------------------------
(* Properties of __getitem__ *)

\* the index values of item that are named arrays, in the key order of item,
\* or item itself when it is one array
IndexArraysOf(item) ==
    IF item.kind = "dict"
    THEN SelectSeq(Values(item.entries), LAMBDA v : v \in IndexArrays)
    ELSE IF item.kind = "array" THEN <<item.array>>
    ELSE <<>>

\* the positions in that order whose reversed handler returns a result
Accepting(item, rev) ==
    {i \in 1..Len(IndexArraysOf(item)) : rev[IndexArraysOf(item)[i]]}

Min(S) == CHOOSE m \in S : \A n \in S : m <= n

\* C7: array[item] calls the target's _getitem(item) first and returns its
\* result without calling a reversed handler; only when it declines are the
\* index arrays asked through _getitem_reversed(target, item), in key order,
\* and the first that returns a result decides, no later handler being called.
C7_DispatchOrder ==
    gi_out.kind # "pending" =>
        LET arrays == IndexArraysOf(gi_item)
            accepting == Accepting(gi_item, gi_rev)
            last == IF accepting = {} THEN Len(arrays) ELSE Min(accepting)
        IN  /\ Len(gi_calls) >= 1
            /\ gi_calls[1] = OwnCall(gi_self, gi_item)
            /\ gi_self.accepts =>
                   /\ Len(gi_calls) = 1
                   /\ gi_out = GiReturn(ResultOf("self"))
            /\ ~gi_self.accepts =>
                   /\ Len(gi_calls) = 1 + last
                   /\ \A i \in 1..last :
                          gi_calls[i + 1] = ReversedCall(arrays[i], gi_self, gi_item)
                   /\ accepting # {} => gi_out = GiReturn(ResultOf(arrays[last]))

\* the own handler declined, two different index arrays would both return a
\* result, and the one under the first key decided
C7_Witness ==
    /\ gi_out.kind = "return"
    /\ ~gi_self.accepts
    /\ gi_item.kind = "dict"
    /\ Len(IndexArraysOf(gi_item)) = 2
    /\ IndexArraysOf(gi_item)[1] # IndexArraysOf(gi_item)[2]
    /\ Accepting(gi_item, gi_rev) = {1, 2}
    /\ Len(gi_calls) = 2

\* the own handler and every reversed handler decline
AllDecline ==
    /\ gi_out.kind # "pending"
    /\ ~gi_self.accepts
    /\ Accepting(gi_item, gi_rev) = {}

\* C8 as stated: when every handler declines, indexing fails with a type error
\* (TypeError / IndexError) that names the target's type.
C8_NoHandlerAsStated ==
    AllDecline =>
        /\ gi_out.kind = "raise"
        /\ gi_out.exc \in {"TypeError", "IndexError"}
        /\ gi_out.names = gi_self.type

\* C8: when every handler declines (also when item holds no named array),
\* indexing fails with a ValueError whose message names the target's type; it
\* returns no value, and array[item] never returns the NotImplemented marker.
C8_NoHandler ==
    /\ AllDecline =>
           /\ gi_out.kind = "raise"
           /\ gi_out.exc = "ValueError"
           /\ gi_out.names = gi_self.type
    /\ gi_out.kind = "return" => gi_out.value # NotImplemented

\* two index arrays were asked and both declined
C8_Witness ==
    /\ AllDecline
    /\ gi_out.kind = "raise"
    /\ Len(gi_calls) = 3
    /\ IndexArraysOf(gi_item)[1] # IndexArraysOf(gi_item)[2]

---------------------------------------------------------------------------
(* Properties of ndindex *)

\* the names given as ignored axes
IgnoredSet(axis_ignored) ==
    IF axis_ignored.kind = "None" THEN {}
    ELSE IF axis_ignored.kind = "str" THEN {axis_ignored.str}
    ELSE {axis_ignored.seq[i] : i \in 1..Len(axis_ignored.seq)}

\* the shape without the ignored axes
Remaining(shape, axis_ignored) ==
    SelectSeq(shape, LAMBDA e : e[1] \notin IgnoredSet(axis_ignored))

RECURSIVE Product(_)
Product(sizes) == IF sizes = <<>> THEN 1 ELSE Head(sizes) * Product(Tail(sizes))

\* a comes before b when the last coordinate varies fastest
Before(a, b) ==
    \E i \in 1..Len(a) :
        /\ a[i] < b[i]
        /\ \A j \in 1..(i - 1) : a[j] = b[j]

\* C9: iterated to its end, ndindex yields each mapping from the remaining
\* axis names to coordinates 0 <= c < size exactly once, the product of the
\* remaining sizes in total, with keys in shape order and the last remaining
\* axis varying fastest; ignored names absent from the shape are tolerated.
C9_NdindexComplete ==
    (nd_loops = 1 /\ nd_loop = "exhausted") =>
        LET remaining == Remaining(nd_shape, nd_ignored)
        IN  /\ Len(nd_out) = Product(Values(remaining))
            /\ \A k \in 1..Len(nd_out) :
                   /\ Keys(nd_out[k]) = Keys(remaining)
                   /\ \A i \in 1..Len(remaining) :
                          nd_out[k][i][2] \in 0..(remaining[i][2] - 1)
            /\ \A k, l \in 1..Len(nd_out) :
                   k < l => Before(Values(nd_out[k]), Values(nd_out[l]))

\* two axes of size 2 remained, a name no axis carries was ignored
C9_Witness ==
    /\ nd_loops = 1
    /\ nd_loop = "exhausted"
    /\ Len(Remaining(nd_shape, nd_ignored)) = 2
    /\ Len(nd_out) = 4
    /\ IgnoredSet(nd_ignored) # {}

\* C10 as stated: iterating the same returned object again, to its end,
\* yields the complete sequence again.
C10_RestartableAsStated ==
    (nd_loops >= 2 /\ nd_loop = "exhausted") =>
        nd_out = ndindex_yields(nd_shape, nd_ignored)

IsPrefix(s, t) == Len(s) <= Len(t) /\ s = SubSeq(t, 1, Len(s))

\* C10: the object returned by one call of ndindex is single-pass: iterating
\* it again goes on after the last mapping it has yielded, so over all its
\* iterations each mapping is yielded at most once, in order, all of them once
\* it is exhausted, and an iteration begun after that yields nothing.
C10_SinglePass ==
    LET yields == ndindex_yields(nd_shape, nd_ignored)
    IN  /\ IsPrefix(nd_seen, yields)
        /\ nd_loop = "exhausted" => nd_seen = yields
        /\ Len(nd_out) <= Len(nd_seen)
        /\ nd_out = SubSeq(yields, Len(nd_seen) - Len(nd_out) + 1, Len(nd_seen))

\* a second iteration over an object left part-way obtained only the rest
C10_Witness ==
    /\ nd_loops = 2
    /\ nd_loop = "exhausted"
    /\ nd_out # <<>>
    /\ Len(nd_out) < Len(ndindex_yields(nd_shape, nd_ignored))

---------------------------------------------------------------------------
(* Properties of interp_linear *)

\* the size of the axis of the array that entry e of the item names
ItemSize(e) == Get(il_self.shape, il_item[e][1])

\* entry e of the item holds grid points only: integers k with 0 <= k <= n-1
OnGrid(e) ==
    \A p \in 1..Len(il_item[e][2].at) :
        /\ il_item[e][2].at[p] % Den = 0
        /\ 0 <= il_item[e][2].at[p]
        /\ il_item[e][2].at[p] <= Den * (ItemSize(e) - 1)

\* A[{i: k}] for the grid points k of a one-entry item
GridValue ==
    ndarray_getitem(il_self,
        << <<il_item[1][1],
             PlainIndex(il_item[1][2].array,
                        [p \in 1..Len(il_item[1][2].at) |-> il_item[1][2].at[p] \div Den])>> >>,
        0)

StatedX0(xh, n) ==
    IF xh < 0 THEN 0
    ELSE IF xh >= Den * (n - 1) THEN n - 2
    ELSE xh \div Den

\* the integers a read used on the axis of entry e of the item
ReadAt(read, e) == Get(read.index, il_item[e][1]).at

\* C12: for an axis of any size n >= 1 and any coordinate x on it,
\* interp_linear reads the array only at the neighbour indices x0 and x0+1,
\* with x0 = 0 when x < 0, x0 = n-2 when x >= n-1 and x0 = floor(x) otherwise,
\* and every index it uses lies in 0..n-1: none is negative or out of bounds.
C12_NeighboursInBounds ==
    (il_out.kind # "pending" /\ \A e \in 1..Len(il_item) : ItemSize(e) >= 1) =>
        \A r \in 1..Len(il_out.reads) : \A e \in 1..Len(il_item) :
            HasKey(il_out.reads[r].index, il_item[e][1]) =>
                \A p \in 1..Len(ReadAt(il_out.reads[r], e)) :
                    /\ 0 <= ReadAt(il_out.reads[r], e)[p]
                    /\ ReadAt(il_out.reads[r], e)[p] <= ItemSize(e) - 1
                    /\ il_out.reads[r].line # 669 =>
                           ReadAt(il_out.reads[r], e)[p] \in
                               {StatedX0(il_item[e][2].at[p], ItemSize(e)),
                                StatedX0(il_item[e][2].at[p], ItemSize(e)) + 1}

\* C13: interp_linear, and the call operator that delegates to it, given an
\* empty coordinate mapping fails with a ValueError and returns no value.
C13_EmptyItemRaises ==
    (il_out.kind # "pending" /\ Len(il_item) = 0) =>
        /\ il_out.kind = "raise"
        /\ il_out.exc = "ValueError"
        /\ il_out.pts = <<>>

\* the call operator has been given an empty mapping on a two-axis array
C13_Witness ==
    /\ il_via = "__call__"
    /\ Len(il_item) = 0
    /\ Len(il_self.shape) = 2
    /\ il_out.kind = "raise"

---------------------------------------------------------------------------
(* Properties of random-carrying objects and of random_uniform *)

\* C14: for every random-carrying object, construction with seed=None stores
\* one freshly drawn integer seed (one value is taken from the generator of
\* the random module) and construction with an explicit seed stores that seed
\* unchanged; after construction the seed is never None, and no later
\* operation on an object (_rng, materializing, a forwarded property) changes
\* its seed.
C14_SeedFixed ==
    [][/\ \A o \in 1..Len(rn_objs') :
              /\ ~rn_objs'[o].seed.none
              /\ ~rn_objs'[o].given.none => rn_objs'[o].seed = rn_objs'[o].given
       /\ \A o \in 1..Len(rn_objs) : rn_objs'[o].seed = rn_objs[o].seed
       /\ Len(rn_objs') > Len(rn_objs) =>
              rn_python' = rn_python
                           + (IF rn_objs'[Len(rn_objs')].given.none THEN 1 ELSE 0)
      ]_vars

\* an object constructed with seed=None and one constructed with seed 0 have
\* been materialized and had a forwarded property read
C14_Witness ==
    /\ \E o \in 1..Len(rn_objs) :
           rn_objs[o].given.none /\ Len(rn_objs[o].arrays) = MaxCalls
    /\ \E o \in 1..Len(rn_objs) :
           rn_objs[o].given = Seed(0) /\ Len(rn_objs[o].arrays) > 0
    /\ rn_last.op = "shape"

\* C15: two random-sample objects constructed with the same explicit seed and
\* the same parameters materialize identical arrays, and one object
\* materialized any number of times gives the same array each time.
C15_Reproducible ==
    \A o1, o2 \in 1..Len(rn_objs) :
        (/\ o1 = o2 \/ ~rn_objs[o1].given.none
         /\ rn_objs[o1].given = rn_objs[o2].given
         /\ rn_objs[o1].size = rn_objs[o2].size) =>
            \A i \in 1..Len(rn_objs[o1].arrays), j \in 1..Len(rn_objs[o2].arrays) :
                rn_objs[o1].arrays[i] = rn_objs[o2].arrays[j]

\* two objects with the same explicit seed and size have each been
\* materialized as often as the bound allows
C15_Witness ==
    /\ Len(rn_objs) = 2
    /\ ~rn_objs[1].given.none
    /\ rn_objs[1].given = rn_objs[2].given
    /\ rn_objs[1].size = rn_objs[2].size
    /\ Len(rn_objs[1].arrays) = MaxCalls
    /\ Len(rn_objs[2].arrays) = MaxCalls

\* C16: every operation is a pure function of its explicit inputs: two calls
\* of random_uniform with identical start, stop, shape_random and seed, for
\* every seed it accepts (None included), return identical values, and no
\* call reads or advances process-wide random state or writes output.
C16_Pure ==
    [][/\ \A i, j \in 1..Len(rn_calls') :
              (/\ rn_calls'[i].start = rn_calls'[j].start
               /\ rn_calls'[i].size = rn_calls'[j].size
               /\ rn_calls'[i].seed = rn_calls'[j].seed) =>
                  /\ rn_calls'[i].kind = rn_calls'[j].kind
                  /\ rn_calls'[i].value = rn_calls'[j].value
       /\ rn_numpy' = rn_numpy
       /\ rn_python' = rn_python
       /\ rn_stdout' = rn_stdout
      ]_vars

---------------------------------------------------------------------------
(* Properties of copies and of vector components *)

\* the objects a field of object id refers to
Components(heap, id) == {heap[id].fields[k][2] : k \in 1..Len(heap[id].fields)}

\* the objects reachable from the fields of object id
RECURSIVE Reach(_, _)
Reach(heap, id) ==
    Components(heap, id) \cup UNION {Reach(heap, f) : f \in Components(heap, id)}

\* what is seen through object id: its type, its data and its fields' views
RECURSIVE View(_, _)
View(heap, id) ==
    <<heap[id].type, heap[id].data,
      [k \in 1..Len(heap[id].fields) |->
          <<heap[id].fields[k][1], View(heap, heap[id].fields[k][2])>>]>>

\* the objects made by operation op, in a heap
Made(heap, op) == {i \in 1..Len(heap) : heap[i].op = op}

\* C17: copy_shallow returns a new object of the same type whose fields are
\* the very same objects as the original's, so the two always show the same
\* data; copy returns a new object of the same type whose fields are
\* duplicates equal to the original's that share no object with it, so a
\* write made through the deep copy leaves what the original shows unchanged.
C17_CopySemantics ==
    [][/\ \A c \in Made(cp_heap', "copy_shallow") :
              /\ c # cp_heap'[c].of
              /\ cp_heap'[c].type = cp_heap'[cp_heap'[c].of].type
              /\ cp_heap'[c].fields = cp_heap'[cp_heap'[c].of].fields
              /\ View(cp_heap', c) = View(cp_heap', cp_heap'[c].of)
       /\ \A c \in Made(cp_heap', "copy") :
              /\ c # cp_heap'[c].of
              /\ cp_heap'[c].type = cp_heap'[cp_heap'[c].of].type
              /\ Reach(cp_heap', c) \cap Reach(cp_heap', cp_heap'[c].of) = {}
              /\ c > Len(cp_heap) => View(cp_heap', c) = View(cp_heap', cp_heap'[c].of)
       /\ \A c \in Made(cp_heap, "copy") :
              (\E b \in Reach(cp_heap, c) : cp_heap'[b].data # cp_heap[b].data) =>
                  View(cp_heap', cp_heap[c].of) = View(cp_heap, cp_heap[c].of)
      ]_vars

\* a vector has a shallow copy and a deep copy, and data was written through
\* the deep copy
C17_Witness ==
    \E v \in Instances(VectorClasses) :
        /\ \E c \in MadeBy({"copy_shallow"}) : cp_heap[c].of = v
        /\ \E c \in MadeBy({"copy"}) :
               /\ cp_heap[c].of = v
               /\ \E b \in Reach(cp_heap, c) : cp_heap[b].data = 1
               /\ \A b \in Reach(cp_heap, v) : cp_heap[b].data = 0

\* C18 as stated: in every state reached by vector constructions, from_scalar
\* calls, shallow copies and deep copies, no component array object is held
\* by two distinct vector instances.
C18_NoAliasing ==
    \A v, w \in Instances(VectorClasses) :
        v # w => Components(cp_heap, v) \cap Components(cp_heap, w) = {}

\* C18, corrected: only a deep copy owns its components alone.  The vector
\* copy() returns shares no component with any vector that existed before it;
\* a shallow copy holds the very components of its original; the vector
\* from_scalar returns holds the scalar it was given in every component.
C18_DeepCopyOwns ==
    /\ \A c \in Instances(VectorClasses) \cap MadeBy({"copy"}) :
           \A w \in Instances(VectorClasses) :
               w < c => Components(cp_heap, c) \cap Components(cp_heap, w) = {}
    /\ \A c \in Instances(VectorClasses) \cap MadeBy({"copy_shallow"}) :
           Components(cp_heap, c) = Components(cp_heap, cp_heap[c].of)
    /\ \A v \in Instances(VectorClasses) \cap MadeBy({"from_scalar"}) :
           Components(cp_heap, v) = {cp_heap[v].of}

\* a vector made by from_scalar has a shallow copy, which shares its
\* component, and a deep copy
C18_Witness ==
    \E v \in Instances(VectorClasses) \cap MadeBy({"from_scalar"}) :
        /\ \E c \in MadeBy({"copy_shallow"}) :
               cp_heap[c].of = v /\ Components(cp_heap, c) = Components(cp_heap, v)
        /\ \E c \in MadeBy({"copy"}) : cp_heap[c].of = v

---------------------------------------------------------------------------
(* Properties of == *)

\* C19: for every array kind of the core, the random-sample kinds included,
\* a == b is the elementwise comparison that the ufunc override produces: a
\* boolean array, never a single boolean such as a field-wise equality
\* generated by the dataclass decorator returns.
C19_ElementwiseEq ==
    eq_out.kind # "pending" => eq_out = ufunc_eq(eq_self, eq_other)

---------------------------------------------------------------------------
(* Properties of determinant and inverse *)

\* row count equals component count; the only row of a spectral matrix is
\* its wavelength
is_square(self) == Len(self.wavelength.components) = 1

\* C20: determinant and inverse of a matrix that is not square raise a
\* dimension error; neither returns a value, or None, for such a matrix.
C20_NonSquareRaises ==
    (mx_out.kind # "pending" /\ ~is_square(mx_self)) => mx_out.kind = "raise"

---------------------------------------------------------------------------
(* Properties of step *)

\* C21: for a linear space with any start, stop, endpoint flag and
\* num >= 1, step is defined and equals (stop - start)/(num - 1) when
\* endpoint is true and (stop - start)/num when it is false.
C21_StepDefined ==
    (ls_out.kind # "pending" /\ ls_self.num >= 1) =>
        /\ ls_out.kind = "return"
        /\ ls_out.den # 0
        /\ ls_out.num = ls_self.stop - ls_self.start
        /\ ls_out.den = IF ls_self.endpoint THEN ls_self.num - 1 ELSE ls_self.num

---------------------------------------------------------------------------
(* Properties of the key order of broadcast_shapes *)

RECURSIVE Scanned(_)
\* the axis names met when each shape is scanned from its last axis to its
\* first, the shapes being taken in argument order
Scanned(shapes) ==
    IF shapes = <<>> THEN <<>>
    ELSE Reversed(Keys(Head(shapes))) \o Scanned(Tail(shapes))

RECURSIVE FirstMet(_)
\* the names of s, each at the place of its first occurrence
FirstMet(s) ==
    IF s = <<>> THEN <<>>
    ELSE LET front == FirstMet(SubSeq(s, 1, Len(s) - 1))
             last == s[Len(s)]
         IN  IF \E i \in 1..Len(front) : front[i] = last THEN front
             ELSE Append(front, last)

\* C22: the key order of the result of broadcast_shapes is the reverse of
\* the order in which axis names are first met when each input is scanned
\* from its last axis to its first, the inputs in argument order; an axis
\* whose size is raised from 1 to k later keeps the place of its first
\* occurrence.
C22_KeyOrder ==
    bs_out.kind = "return" =>
        Keys(bs_out.value) = Reversed(FirstMet(Scanned(bs_shapes)))

\* a call returned in which a later input raised the size of an axis from 1
\* to k, and that axis is not the last one first met
C22_Witness ==
    /\ bs_out.kind = "return"
    /\ Len(bs_shapes) >= 2
    /\ \E axis \in KeySet(bs_out.value) :
           /\ HasKey(bs_shapes[1], axis)
           /\ Get(bs_shapes[1], axis) = 1
           /\ Get(bs_out.value, axis) > 1
           /\ Keys(bs_out.value)[1] # axis

---------------------------------------------------------------------------
(* Properties of concurrent readers *)

\* what a reader of the property obtains when it runs alone
Alone(self, what) == IF what = "shape" THEN <<Len(array(self))>> ELSE array(self)

\* C23: under any interleaving of readers that materialize one shared
\* random-carrying object or read its forwarded properties, the object's
\* parameters and seed stay unchanged and every reader obtains the result it
\* would obtain running alone.
C23_ReadersIndependent ==
    [][/\ rd_obj' = rd_obj
       /\ \A r \in 1..MaxReaders :
              rd_readers'[r].pc = "done" =>
                  rd_readers'[r].out = Alone(rd_obj, rd_readers'[r].what)]_vars

\* two reads overlap: reader 1 began after reader 2 had made its generator
\* and has its values, while reader 2 has not drawn yet
C23_Witness ==
    /\ rd_readers[2].pc = "rng"
    /\ rd_readers[2].gen = 1
    /\ rd_readers[1].pc = "done"
    /\ rd_readers[1].what = "ndarray"
    /\ rd_readers[1].gen = 2

---------------------------------------------------------------------------
(* Properties of the objects passed to an operation *)

\* C24: no operation mutates the mappings or sequences passed to it,
\* whether it succeeds or fails: after broadcast_shapes, ndindex,
\* interp_linear and stack every input shape, the ignored-axis list, the
\* item and the arrays sequence hold the entries they held before the call.
C24_InputsUnchanged ==
    [][\A i \in 1..Len(fx_args) : fx_heap'[fx_args[i]] = fx_heap[fx_args[i]]]_vars

\* ndindex has run with a list of ignored axes and dropped an axis of the
\* shape, from its copy
C24_Witness ==
    /\ fx_op = "ndindex"
    /\ fx_out.kind = "return"
    /\ Len(fx_args) = 2
    /\ Len(fx_heap[3]) < Len(fx_heap[1])

---------------------------------------------------------------------------
(* Properties of the None result of type_array *)

\* C25: type_array returns None exactly when no operand is a named array
\* whose priority is greater than 0: with no named-array operand, or with
\* named arrays whose priorities are all zero or negative.
C25_NoneIffNoPositive ==
    ta_out.kind = "return" =>
        (ta_out.cls = "None" <=>
            ~\E i \in 1..Len(ta_values) :
                 ta_values[i].array /\ ta_priority[ta_values[i].cls] > 0)

\* None was returned for named arrays of priority zero and of negative
\* priority
C25_Witness ==
    /\ ta_out = TaReturn("None")
    /\ \E i, j \in 1..Len(ta_values) :
           /\ ta_values[i].array /\ ta_priority[ta_values[i].cls] = 0
           /\ ta_values[j].array /\ ta_priority[ta_values[j].cls] < 0

---------------------------------------------------------------------------
(* Properties of the key order of item *)

\* the corner samples an interpolation read at lines 657 and 658, each as
\* the set of its index entries
LeafReads(out) ==
    {{out.reads[r].index[k] : k \in 1..Len(out.reads[r].index)} :
        r \in {q \in 1..Len(out.reads) : out.reads[q].line # 669}}

\* C26: in exact arithmetic the result of interp_linear does not depend on
\* the key order of item: the item and the item with its keys in the other
\* order give the same result, both the multilinear combination of the same
\* 2^m corner samples (m keys in item), the recursion being m levels deep.
C26_KeyOrderIndependent ==
    il_out.kind # "pending" =>
        LET other == interp_linear(il_self, Reversed(il_item))
            leaves == {q \in 1..Len(il_out.reads) : il_out.reads[q].line # 669}
        IN  /\ other.kind = il_out.kind
            /\ other.exc = il_out.exc
            /\ il_out.kind = "return" =>
                   /\ other.array = il_out.array
                   /\ other.pts = il_out.pts
                   /\ other.den = il_out.den
                   /\ LeafReads(other) = LeafReads(il_out)
                   /\ Cardinality(leaves) = 2 ^ Len(il_item)
                   /\ Cardinality(LeafReads(il_out)) = 2 ^ Len(il_item)

\* an array of two axes whose four elements are not all alike has been
\* interpolated between grid points on both axes, axis j given first
C26_Witness ==
    /\ il_out.kind = "return"
    /\ Len(il_item) = 2
    /\ il_item[1][1] = "j"
    /\ \A e \in 1..2 : ItemSize(e) = 2 /\ il_item[e][2].at[1] % Den # 0
    /\ il_item[1][2].at[1] # il_item[2][2].at[1]
    /\ il_self.ndarray[<<0, 1>>] # il_self.ndarray[<<1, 0>>]

---------------------------------------------------------------------------
(* Properties of the two branches of the lower neighbour *)

\* C27: for every axis size n >= 1 and every coordinate x, the scalar
\* branch of _interp_linear_recursive (comparisons, then int(x)) and the
\* array branch (floor, then the overwrite of the entries below 0 and of
\* those at or above n-1, in that order) choose the same lower neighbour.
C27_BranchesAgree ==
    il_out.kind # "pending" =>
        \A e \in 1..Len(il_item) :
            ItemSize(e) >= 1 =>
                \A p \in 1..Len(il_item[e][2].at) :
                    x0_scalar(il_item[e][2].at[p], ItemSize(e))
                        = x0_array(il_item[e][2].at[p], ItemSize(e))

\* a coordinate array with an element between -1 and 0, where int and
\* floor differ, and one past the last grid point has been interpolated at
C27_Witness ==
    /\ il_out.kind # "pending"
    /\ Len(il_item) = 1
    /\ il_item[1][2].array
    /\ ItemSize(1) >= 2
    /\ \E p, q \in 1..Len(il_item[1][2].at) :
           /\ il_item[1][2].at[p] < 0
           /\ il_item[1][2].at[p] % Den # 0
           /\ il_item[1][2].at[q] > Den * (ItemSize(1) - 1)

---------------------------------------------------------------------------
(* Properties of copies of random-carrying objects *)

\* C28: copying a random-carrying object never draws a new seed: after
\* copy_shallow or copy of an object, built with an explicit seed or with
\* seed=None, the copy's seed equals the original's seed, so the copy and
\* the original materialize identical arrays.
C28_CopyKeepsSeed ==
    /\ rc_python = Cardinality({o \in 1..Len(rc_objs) :
                                    rc_objs[o].op = "new" /\ rc_objs[o].given.none})
    /\ \A c \in 1..Len(rc_objs) :
           rc_objs[c].op # "new" =>
               /\ rc_objs[c].seed = rc_objs[rc_objs[c].of].seed
               /\ array(rc_objs[c]) = array(rc_objs[rc_objs[c].of])

\* an object built with seed=None has a shallow copy, and that copy a deep
\* copy
C28_Witness ==
    /\ Len(rc_objs) = 3
    /\ rc_objs[1].op = "new" /\ rc_objs[1].given.none
    /\ rc_objs[2].op = "copy_shallow" /\ rc_objs[2].of = 1
    /\ rc_objs[3].op = "copy" /\ rc_objs[3].of = 2

====
